---- MODULE Spec2Model ----
(***************************************************************************)
(* Verification model of the ATHENA dashboard (src/App.jsx).               *)
(*                                                                         *)
(* src/App.jsx holds two copies of the application:                        *)
(*   copy A = lines 1..1027    (three-shift catalog, BacklogTrajectoryCard)*)
(*   copy B = lines 1029..2355 (five-shift catalog, prior-day view)        *)
(* A definition that models copy A ends in A, one that models copy B ends  *)
(* in B; otherwise the definitions keep the names of the source.           *)
(*                                                                         *)
(* Calendar dates are day numbers (NA is the "N/A" sentinel), a timestamp  *)
(* is a record [d |-> day, h |-> hour], a prediction series is the set of  *)
(* its entries [Time, Predicted_Workable] with at most one entry per hour. *)
(* Hours of labour are kept in tenths of an hour where the code rounds to  *)
(* one decimal.                                                            *)
(***************************************************************************)
EXTENDS Integers, Sequences, FiniteSets, TLC

VARIABLES
    \* ---- inputs of the pure derivations (resolver, aggregator, trajectory)
    data,             \* the snapshot (VIZ.json document) the derivations read
    tz,               \* hours the browser's local time is behind UTC
    now,              \* the wall clock, new Date()
    planInputs,       \* quarterlyInputs handed to the derivations
    \* ---- results of the pure derivations
    calc,             \* last derivation performed and its result
    \* ---- the running application (App + PDPPage)
    copy,             \* which copy of the application is running: "A" or "B"
    currentView,      \* App.currentView
    vizData,          \* App.vizData, the active snapshot
    isLoading,        \* App.isLoading
    quarterlyInputs,  \* the plan-input store
    targetTPH,        \* the target throughput
    activeDataSource,        \* copy B: 'latest' or 'priorDay'
    dateOfLatestDataLoaded,  \* copy B: current_day date of the latest fetch (NA: null)
    dateOfPriorDayView,      \* copy B: date of the prior day viewed (NA: null)
    pdpMounted,       \* whether a PDPPage instance is mounted
    triggerAutoBalance, \* PDPPage.triggerAutoBalance of the mounted instance
    effects,          \* effects React has scheduled for the committed render
    fetches,          \* snapshot fetches in flight
    hist,             \* observations of the session the properties are stated on
    \* ---- one call of ApiService.fetchLatestAvailableData
    probe             \* its position, attempt count, candidate and result

pureVars == <<data, tz, now, planInputs, calc>>
appVars  == <<copy, currentView, vizData, isLoading, quarterlyInputs, targetTPH,
              activeDataSource, dateOfLatestDataLoaded, dateOfPriorDayView,
              pdpMounted, triggerAutoBalance, effects, fetches, hist, probe>>
vars == <<data, tz, now, planInputs, calc, copy, currentView, vizData, isLoading,
          quarterlyInputs, targetTPH, activeDataSource, dateOfLatestDataLoaded,
          dateOfPriorDayView, pdpMounted, triggerAutoBalance, effects, fetches, hist,
          probe>>

----------------------------------------------------------------------------
(* Constants of the program *)

NA == 0                       \* the "N/A" date / time sentinel
DEFAULT_PLANNED_RATE == 65
DEFAULT_TARGET_TPH == 60

Max(a, b) == IF a >= b THEN a ELSE b

\* The day the snapshots of the model are produced for.
Today == NA + 10

\* Offsets (hours behind UTC) of the browsers the model runs in: UTC and
\* US Pacific daylight time (the data bucket lives in us-west-1).
TZOffsets == {0, 7}

----------------------------------------------------------------------------
(* Temporal utilities *)

\* null of parseDateTime / getPredictionAtTime
Null == [d |-> NA, h |-> 0]

\* parseDateTime below, changed to read a date part that is not a date as the
\* current day (a changed copy, used to test the properties)
parseDateTime_lenient(dateStr, hour) ==
    IF dateStr = NA THEN [d |-> NA + 10, h |-> hour] ELSE [d |-> dateStr, h |-> hour]

\* parseDateTime(`${dateStr}T${hh}:00`): a local timestamp, null when the
\* date part is not a date ("N/A" gives an Invalid Date).
parseDateTime(dateStr, hour) ==
    IF dateStr = NA THEN Null ELSE [d |-> dateStr, h |-> hour]

\* Date.prototype.toISOString(): the UTC reading of a local timestamp.
toISOString(dt, off) ==
    LET t == dt.h + off
    IN  [d |-> dt.d + (t \div 24), h |-> t % 24]

\* getOffsetDateString below, changed to return the base date (a changed copy,
\* used to test the properties)
getOffsetDateString_same(baseDateStr, dayOffset) == baseDateStr

getOffsetDateString(baseDateStr, dayOffset) ==
    IF baseDateStr = NA THEN NA ELSE baseDateStr + dayOffset

\* Copy A: the entries whose Time string starts with the ISO (UTC) rendering
\* of the target; find() returns the first of them, null when there is none.
getPredictionAtTimeA(predictions, targetDateTime, off) ==
    IF targetDateTime = Null THEN {}
    ELSE {p \in predictions : p.Time = toISOString(targetDateTime, off)}

\* Copy B: date part of the Time string equal to the target date and local
\* hour of the parsed Time equal to the target hour; 0 when absent.
getCumulativeVolumeAtSpecificDateTime(predictionsArray, targetDateStr, targetHour) ==
    IF predictionsArray = {} \/ targetDateStr = NA THEN 0
    ELSE IF targetHour < 0 THEN 0
    ELSE LET entry == {p \in predictionsArray :
                          p.Time.d = targetDateStr /\ p.Time.h = targetHour}
         IN  IF entry = {} THEN 0
             ELSE (CHOOSE p \in entry : TRUE).Predicted_Workable

----------------------------------------------------------------------------
(* Shift / quarter schedule model *)

Q(id, sh, eh, dk) == [id |-> id, startHour |-> sh, endHour |-> eh, dateKey |-> dk]

ALL_SHIFT_DEFINITIONS_A ==
    [currentNight |-> [key |-> "currentNight", quarters |->
        << Q("cnq1", 18, 21, "current_day_date"), Q("cnq2", 21, 0, "current_day_date"),
           Q("cnq3", 0, 3, "next_day_date"),      Q("cnq4", 3, 6, "next_day_date") >>],
     nextDay |-> [key |-> "nextDay", quarters |->
        << Q("ndq1", 6, 9, "next_day_date"),   Q("ndq2", 9, 12, "next_day_date"),
           Q("ndq3", 12, 15, "next_day_date"), Q("ndq4", 15, 18, "next_day_date") >>],
     nextNight |-> [key |-> "nextNight", quarters |->
        << Q("nnq1", 18, 21, "next_day_date"),     Q("nnq2", 21, 0, "next_day_date"),
           Q("nnq3", 0, 3, "day_after_next_date"), Q("nnq4", 3, 6, "day_after_next_date") >>]]

ORDERED_SHIFT_KEYS_A == <<"currentNight", "nextDay", "nextNight">>

ALL_SHIFT_DEFINITIONS_B ==
    [currentNight |-> [key |-> "currentNight", quarters |->
        << Q("cnq1", 18, 21, "current_day_date"), Q("cnq2", 21, 0, "current_day_date"),
           Q("cnq3", 0, 3, "next_day_date"),      Q("cnq4", 3, 6, "next_day_date") >>],
     nextDay |-> [key |-> "nextDay", quarters |->
        << Q("ndq1", 6, 9, "next_day_date"),   Q("ndq2", 9, 12, "next_day_date"),
           Q("ndq3", 12, 15, "next_day_date"), Q("ndq4", 15, 18, "next_day_date") >>],
     nextNight |-> [key |-> "nextNight", quarters |->
        << Q("nnq1", 18, 21, "next_day_date"),     Q("nnq2", 21, 0, "next_day_date"),
           Q("nnq3", 0, 3, "day_after_next_date"), Q("nnq4", 3, 6, "day_after_next_date") >>],
     dayAfterNextDay |-> [key |-> "dayAfterNextDay", quarters |->
        << Q("dandq1", 6, 9, "day_after_next_date"),   Q("dandq2", 9, 12, "day_after_next_date"),
           Q("dandq3", 12, 15, "day_after_next_date"), Q("dandq4", 15, 18, "day_after_next_date") >>],
     dayAfterNextNight |-> [key |-> "dayAfterNextNight", quarters |->
        << Q("dannq1", 18, 21, "day_after_next_date"),
           Q("dannq2", 21, 0, "day_after_next_date"),
           Q("dannq3", 0, 3, "day_after_next_plus_1_date"),
           Q("dannq4", 3, 6, "day_after_next_plus_1_date") >>]]

ORDERED_SHIFT_KEYS_B ==
    <<"currentNight", "nextDay", "nextNight", "dayAfterNextDay", "dayAfterNextNight">>

SeqRange(s) == {s[i] : i \in 1..Len(s)}

QuartersA == UNION {SeqRange(ALL_SHIFT_DEFINITIONS_A[k].quarters) :
                       k \in SeqRange(ORDERED_SHIFT_KEYS_A)}
QuartersB == UNION {SeqRange(ALL_SHIFT_DEFINITIONS_B[k].quarters) :
                       k \in SeqRange(ORDERED_SHIFT_KEYS_B)}
QuarterIds == {q.id : q \in QuartersB}

\* shiftDates of copy A (PDPPage, BacklogTrajectoryCard)
shiftDatesA(d) ==
    [current_day_date    |-> d.current_day.date,
     next_day_date       |-> getOffsetDateString(d.current_day.date, 1),
     day_after_next_date |-> getOffsetDateString(d.current_day.date, 2)]

\* shiftDates of copy B (PDPPage, DashboardPage)
shiftDatesB(d) ==
    [currentDayDateStr        |-> d.current_day.date,
     nextDayDateStr           |-> d.next_day.date,
     dayAfterNextDateStr      |-> getOffsetDateString(d.next_day.date, 1),
     dayAfterNextPlus1DateStr |-> getOffsetDateString(d.next_day.date, 2)]

\* the switch on quarter.dateKeyForQuarter of copy B
qActualDateStrB(quarter, shiftDates) ==
    CASE quarter.dateKey = "current_day_date"           -> shiftDates.currentDayDateStr
      [] quarter.dateKey = "next_day_date"              -> shiftDates.nextDayDateStr
      [] quarter.dateKey = "day_after_next_date"        -> shiftDates.dayAfterNextDateStr
      [] quarter.dateKey = "day_after_next_plus_1_date" -> shiftDates.dayAfterNextPlus1DateStr
      [] OTHER -> NA

----------------------------------------------------------------------------
(* Quarter volume resolver *)

\* data.extended_predictions?.predictions || []
predictionsSource(d) ==
    IF d.extended_predictions.present THEN d.extended_predictions.predictions ELSE {}

Workable(entries) == (CHOOSE p \in entries : TRUE).Predicted_Workable

\* calculateQuarterVolumeUtil of copy A with the `&& quarter.endHour !== 0`
\* of the midnight test dropped (a changed copy, used to test the properties).
calculateQuarterVolumeUtilA_split(quarter, d, shiftDates, off) ==
    LET qActualDateStr == shiftDates[quarter.dateKey]
        preds          == predictionsSource(d)
        crossing       == quarter.startHour > quarter.endHour
        startDateStr   == qActualDateStr
        endDateStr     == IF crossing THEN getOffsetDateString(startDateStr, 1)
                          ELSE qActualDateStr
        endHourForLookup   == IF quarter.endHour = 0 THEN 23 ELSE quarter.endHour - 1
        startHourForLookup == IF quarter.startHour = 0 THEN 0 - 1 ELSE quarter.startHour - 1
        endPredEntry   == getPredictionAtTimeA(preds,
                              parseDateTime(endDateStr, endHourForLookup), off)
        startPredEntry == IF startHourForLookup >= 0
                          THEN getPredictionAtTimeA(preds,
                                   parseDateTime(startDateStr, startHourForLookup), off)
                          ELSE {[Time |-> Null, Predicted_Workable |-> 0]}
        at23           == getPredictionAtTimeA(preds, parseDateTime(startDateStr, 23), off)
        volAt23        == IF at23 = {} THEN 0 ELSE Workable(at23)
    IN  IF preds = {} THEN 0
        ELSE IF endPredEntry = {} \/ startPredEntry = {} THEN 0
        ELSE IF crossing
             THEN (volAt23 - Workable(startPredEntry)) + Workable(endPredEntry)
             ELSE Max(0, Workable(endPredEntry) - Workable(startPredEntry))

calculateQuarterVolumeUtilA(quarter, d, shiftDates, off) ==
    LET qActualDateStr == shiftDates[quarter.dateKey]
        preds          == predictionsSource(d)
        crossing       == quarter.startHour > quarter.endHour /\ quarter.endHour # 0
        startDateStr   == qActualDateStr
        endDateStr     == IF crossing THEN getOffsetDateString(startDateStr, 1)
                          ELSE qActualDateStr
        endHourForLookup   == IF quarter.endHour = 0 THEN 23 ELSE quarter.endHour - 1
        startHourForLookup == IF quarter.startHour = 0 THEN 0 - 1 ELSE quarter.startHour - 1
        endPredEntry   == getPredictionAtTimeA(preds,
                              parseDateTime(endDateStr, endHourForLookup), off)
        startPredEntry == IF startHourForLookup >= 0
                          THEN getPredictionAtTimeA(preds,
                                   parseDateTime(startDateStr, startHourForLookup), off)
                          ELSE {[Time |-> Null, Predicted_Workable |-> 0]}
        at23           == getPredictionAtTimeA(preds, parseDateTime(startDateStr, 23), off)
        volAt23        == IF at23 = {} THEN 0 ELSE Workable(at23)
    IN  IF preds = {} THEN 0
        ELSE IF endPredEntry = {} \/ startPredEntry = {} THEN 0
        ELSE IF crossing
             THEN (volAt23 - Workable(startPredEntry)) + Workable(endPredEntry)
             ELSE Max(0, Workable(endPredEntry) - Workable(startPredEntry))

\* calculateQuarterVolumeUtil of copy B without the Math.max(0, ...) clamp
\* (a changed copy, used to test the properties).
calculateQuarterVolumeUtilB_noClamp(quarter, d, shiftDates) ==
    LET qActualDateStr == qActualDateStrB(quarter, shiftDates)
        preds          == predictionsSource(d)
        endLookupHour  == IF quarter.endHour = 0 THEN 23 ELSE quarter.endHour - 1
        volAtEndOfQuarter ==
            getCumulativeVolumeAtSpecificDateTime(preds, qActualDateStr, endLookupHour)
        volAtStartOfQuarter ==
            IF quarter.startHour = 0 THEN 0
            ELSE getCumulativeVolumeAtSpecificDateTime(preds, qActualDateStr,
                                                       quarter.startHour - 1)
    IN  IF qActualDateStr = NA THEN 0
        ELSE volAtEndOfQuarter - volAtStartOfQuarter

calculateQuarterVolumeUtilB(quarter, d, shiftDates) ==
    LET qActualDateStr == qActualDateStrB(quarter, shiftDates)
        preds          == predictionsSource(d)
        endLookupHour  == IF quarter.endHour = 0 THEN 23 ELSE quarter.endHour - 1
        volAtEndOfQuarter ==
            getCumulativeVolumeAtSpecificDateTime(preds, qActualDateStr, endLookupHour)
        volAtStartOfQuarter ==
            IF quarter.startHour = 0 THEN 0
            ELSE getCumulativeVolumeAtSpecificDateTime(preds, qActualDateStr,
                                                       quarter.startHour - 1)
    IN  IF qActualDateStr = NA THEN 0
        ELSE Max(0, volAtEndOfQuarter - volAtStartOfQuarter)

----------------------------------------------------------------------------
(* Snapshots the derivations are exercised on *)

\* Day profiles of a cumulative series: the hours that carry an entry and the
\* cumulative value of each.
\*   dense    every hour, increasing
\*   example  the three-hour marks with the figures of the specification's
\*            examples (100 at 08:00, 140 at 11:00, 500 at 20:00, 560 at 23:00)
\*   noisy    every hour, not monotone, with a negative value
\*   flat20   every hour, constant 20
\*   gappy    increasing with missing hours
\*   none     no entry
Profiles == {"dense", "example", "noisy", "flat20", "gappy", "none"}

ProfileHours(kind) ==
    CASE kind = "dense"   -> 0..23
      [] kind = "example" -> {2, 5, 8, 11, 14, 17, 20, 23}
      [] kind = "noisy"   -> 0..23
      [] kind = "flat20"  -> 0..23
      [] kind = "gappy"   -> {h \in 0..23 : h % 6 # 2 /\ h % 12 # 3}
      [] OTHER            -> {}

ExampleValue(h) ==
    CASE h = 2 -> 20 [] h = 5 -> 60 [] h = 8 -> 100 [] h = 11 -> 140
      [] h = 14 -> 260 [] h = 17 -> 380 [] h = 20 -> 500 [] OTHER -> 560

ProfileValue(kind, h) ==
    CASE kind = "example" -> ExampleValue(h)
      [] kind = "noisy"   -> IF (h \div 3) % 2 = 0 THEN 400 - 10 * h ELSE 10 * h - 60
      [] kind = "flat20"  -> 20
      [] OTHER            -> 20 * (h + 1)

DayPoints(day, kind) ==
    {[Time |-> [d |-> day, h |-> h], Predicted_Workable |-> ProfileValue(kind, h)] :
        h \in ProfileHours(kind)}

\* A series over the days Today .. Today+3: profile pa on Today and Today+2,
\* profile pb on Today+1 and Today+3.
Series(pa, pb) ==
    UNION {DayPoints(Today + i, IF i % 2 = 0 THEN pa ELSE pb) : i \in 0..3}

Snapshot(time, cd, nd, cdSarima, ndSarima, extPresent, ext, ledgerPresent, apu, elig) ==
    [time |-> time,
     current_day |-> [date |-> cd, sarima_predictions |-> cdSarima],
     next_day    |-> [date |-> nd, sarima_predictions |-> ndSarima],
     extended_predictions |-> [present |-> extPresent, predictions |-> ext],
     Ledger_Information   |-> [present |-> ledgerPresent,
                               metrics |-> [APU |-> apu, Eligible |-> elig]]]

\* DEFAULT_VIZ_DATA
DEFAULT_VIZ_DATA == Snapshot(NA, NA, NA, {}, {}, TRUE, {}, TRUE, <<>>, <<>>)

\* The snapshots of the resolver check: every pair of day profiles, with and
\* without the extended-predictions section, with resolved and unresolved dates.
VolSnapshots ==
    {Snapshot(1, cd, nd, {}, {}, TRUE, Series(pa, pb), TRUE, <<>>, <<>>) :
        cd \in {NA, Today}, nd \in {NA, Today + 1}, pa \in Profiles, pb \in Profiles}
    \cup
    {Snapshot(1, cd, nd, {}, {}, FALSE, {}, TRUE, <<>>, <<>>) :
        cd \in {NA, Today}, nd \in {NA, Today + 1}}

----------------------------------------------------------------------------
(* Initial values of the parts a specification does not exercise *)

PureIdle ==
    /\ data = DEFAULT_VIZ_DATA
    /\ tz = 0
    /\ now = [d |-> Today, h |-> 0]
    /\ planInputs = <<>>
    /\ calc = [op |-> "none"]

\* nothing observed: no auto-balance in the last step, none so far, no user
\* entry to keep, no fetch started
NoHistory == [applied |-> FALSE, balanced |-> FALSE, user |-> {},
              started |-> <<>>, outrun |-> {}]

\* no call of fetchLatestAvailableData is modelled
NoProbe == [pc |-> "idle"]

AppIdle ==
    /\ copy = "A"
    /\ currentView = "dashboard"
    /\ vizData = DEFAULT_VIZ_DATA
    /\ isLoading = TRUE
    /\ quarterlyInputs = <<>>
    /\ targetTPH = DEFAULT_TARGET_TPH
    /\ activeDataSource = "latest"
    /\ dateOfLatestDataLoaded = NA
    /\ dateOfPriorDayView = NA
    /\ pdpMounted = FALSE
    /\ triggerAutoBalance = FALSE
    /\ effects = {}
    /\ fetches = {}
    /\ hist = NoHistory
    /\ probe = NoProbe

----------------------------------------------------------------------------
(* Specification SpecVol: the quarter volume resolver on every catalog      *)
(* quarter, every snapshot of VolSnapshots and every browser offset         *)

InitVol ==
    /\ data \in VolSnapshots
    /\ tz \in TZOffsets
    /\ now = [d |-> Today, h |-> 0]
    /\ planInputs = <<>>
    /\ calc = [op |-> "none"]
    /\ AppIdle

\* calculateQuarterVolumeUtil of copy A on one quarter of its catalog
ResolveA ==
    \E q \in QuartersA :
        /\ calc' = [op |-> "quarterA", quarter |-> q,
                    vol |-> calculateQuarterVolumeUtilA(q, data, shiftDatesA(data), tz)]
        /\ UNCHANGED <<data, tz, now, planInputs>>
        /\ UNCHANGED appVars

\* calculateQuarterVolumeUtil of copy B on one quarter of its catalog
ResolveB ==
    \E q \in QuartersB :
        /\ calc' = [op |-> "quarterB", quarter |-> q,
                    vol |-> calculateQuarterVolumeUtilB(q, data, shiftDatesB(data))]
        /\ UNCHANGED <<data, tz, now, planInputs>>
        /\ UNCHANGED appVars

NextVol == ResolveA \/ ResolveB

SpecVol == InitVol /\ [][NextVol]_vars

----------------------------------------------------------------------------
(* Properties of the quarter volume resolver (checked under SpecVol) *)

Resolved == calc.op \in {"quarterA", "quarterB"}

\* the calendar date of the resolved quarter
ResolvedDate ==
    IF calc.op = "quarterA" THEN shiftDatesA(data)[calc.quarter.dateKey]
    ELSE qActualDateStrB(calc.quarter, shiftDatesB(data))

\* the entries of the series stamped with hour `hour` of day `date`
PointsAt(date, hour) ==
    {p \in predictionsSource(data) : p.Time = [d |-> date, h |-> hour]}

HasPoint(date, hour) == PointsAt(date, hour) # {}

\* the cumulative value the series carries at hour `hour` of day `date`
\* (0 when the series has no entry there)
Cumulative(date, hour) ==
    IF HasPoint(date, hour) THEN Workable(PointsAt(date, hour)) ELSE 0

\* C1: for every catalog quarter, every series (non-monotone, with missing
\* hours, absent) and every assignment of anchor dates the resolved volume
\* is >= 0.
C1_VolumeNonNegative == Resolved => calc.vol >= 0

\* C1 witness: a quarter whose end value lies below its start value has been
\* resolved, and the result is the clamp 0.
C1_Witness ==
    /\ calc.op = "quarterB"
    /\ ResolvedDate # NA
    /\ calc.quarter.startHour > 0
    /\ Cumulative(ResolvedDate, calc.quarter.endHour - 1)
          < Cumulative(ResolvedDate, calc.quarter.startHour - 1)
    /\ calc.vol = 0

\* C2 as stated: a midnight-crossing quarter (startHour > endHour) resolves to
\* (value at 23:00 of the start date - value at startHour-1) + value at the end
\* lookup (hour 23) of the following date; stated for a browser on UTC and a
\* series that carries all three points.
C2_MidnightSplitAsStated ==
    ( /\ Resolved
      /\ calc.quarter.startHour > calc.quarter.endHour
      /\ tz = 0
      /\ ResolvedDate # NA
      /\ HasPoint(ResolvedDate, calc.quarter.startHour - 1)
      /\ HasPoint(ResolvedDate, 23)
      /\ HasPoint(ResolvedDate + 1, 23) )
    => calc.vol = (Cumulative(ResolvedDate, 23)
                     - Cumulative(ResolvedDate, calc.quarter.startHour - 1))
                  + Cumulative(ResolvedDate + 1, 23)

\* C2 amended: a catalog quarter that ends at midnight (21:00-00:00) is not
\* split. Its volume is max(0, end - start), where start is the value the
\* resolver's lookup finds for hour startHour-1 and end the value it finds for
\* hour 23, both on the quarter's own date (copy A: 0 when either lookup finds
\* no entry; copy B: a lookup that finds no entry counts 0); nothing of the
\* following date is added.
C2_MidnightQuarterTwoPoint ==
    /\ ( calc.op = "quarterA" /\ calc.quarter.startHour > calc.quarter.endHour )
       => LET preds == predictionsSource(data)
              s == getPredictionAtTimeA(preds,
                       parseDateTime(ResolvedDate, calc.quarter.startHour - 1), tz)
              e == getPredictionAtTimeA(preds, parseDateTime(ResolvedDate, 23), tz)
          IN  calc.vol = IF s = {} \/ e = {} THEN 0
                         ELSE Max(0, Workable(e) - Workable(s))
    /\ ( calc.op = "quarterB" /\ calc.quarter.startHour > calc.quarter.endHour )
       => LET preds == predictionsSource(data)
          IN  calc.vol =
                Max(0, getCumulativeVolumeAtSpecificDateTime(preds, ResolvedDate, 23)
                       - getCumulativeVolumeAtSpecificDateTime(preds, ResolvedDate,
                                                   calc.quarter.startHour - 1))

\* C2 witness: the 21:00-00:00 quarter resolved on the figures of the example
\* (500 at 20:00, 560 at 23:00, 20 at 23:00 of the following date): 60, not 80.
C2_Witness ==
    /\ Resolved
    /\ calc.quarter.startHour = 21 /\ calc.quarter.endHour = 0
    /\ ResolvedDate # NA
    /\ Cumulative(ResolvedDate, 20) = 500
    /\ Cumulative(ResolvedDate, 23) = 560
    /\ Cumulative(ResolvedDate + 1, 23) = 20
    /\ calc.vol = 60

\* C3: a quarter with 0 < startHour < endHour whose date resolves and whose
\* series has a point at hour startHour-1 and at hour endHour-1 of that date
\* resolves to max(0, cumulative(endHour-1) - cumulative(startHour-1)).
C3_DayQuarterDelta ==
    ( /\ Resolved
      /\ 0 < calc.quarter.startHour
      /\ calc.quarter.startHour < calc.quarter.endHour
      /\ ResolvedDate # NA
      /\ HasPoint(ResolvedDate, calc.quarter.startHour - 1)
      /\ HasPoint(ResolvedDate, calc.quarter.endHour - 1) )
    => calc.vol = Max(0, Cumulative(ResolvedDate, calc.quarter.endHour - 1)
                         - Cumulative(ResolvedDate, calc.quarter.startHour - 1))

\* C4: a quarter with startHour = 0 takes 0 as its start value: its volume is
\* max(0, cumulative(endHour-1)) on the quarter's own date, so it does not
\* depend on any point of the preceding calendar day.
C4_FirstQuarterOfDay ==
    ( /\ Resolved
      /\ calc.quarter.startHour = 0
      /\ ResolvedDate # NA )
    => calc.vol = Max(0, Cumulative(ResolvedDate, calc.quarter.endHour - 1))

----------------------------------------------------------------------------
(* Plan inputs *)

\* A field of a plan-input entry: a number, the empty string '' or undefined.
\* plannedHours is kept in tenths of an hour, plannedRate in units per hour.
Num(v) == [k |-> "num", v |-> v]
EMPTY  == [k |-> "empty", v |-> 0]
UNDEF  == [k |-> "undef", v |-> 0]

\* a text that is not a number, as typed into a field
TEXT == [k |-> "text", v |-> 0]

NaN == [k |-> "nan", v |-> 0]

\* parseFloat of a typed text or a stored field: NaN unless it is a number
parseFloat(x) == IF x.k = "num" THEN x ELSE NaN

\* parseFloat(x) || dflt : NaN ('' and undefined) and 0 give dflt
parseFloatOr(x, dflt) == IF x.k = "num" /\ x.v # 0 THEN x.v ELSE dflt

\* quarterlyInputs[quarter.id] || {}
inputsOf(store, id) ==
    IF id \in DOMAIN store THEN store[id]
    ELSE [plannedHours |-> UNDEF, plannedRate |-> UNDEF]

\* arr?.slice(-1)[0] || 0
lastOr0(arr) == IF Len(arr) = 0 THEN 0 ELSE arr[Len(arr)]

----------------------------------------------------------------------------
(* Backlog trajectory engine.  Backlogs, volumes and capacities of the      *)
(* steps are kept in tenths of a unit (plannedHours is in tenths of an hour)*)

RECURSIVE SumOver(_, _, _)
\* sum of f[q] over the quarters q of a sequence, from index i on
SumOver(quarters, i, f) ==
    IF i > Len(quarters) THEN 0 ELSE f[quarters[i]] + SumOver(quarters, i + 1, f)

\* (APU last || 0) + (Eligible last || 0)
currentBacklog(d) ==
    lastOr0(d.Ledger_Information.metrics.APU) + lastOr0(d.Ledger_Information.metrics.Eligible)

\* Copy A, BacklogTrajectoryCard: volume and capacity of one shift
shiftTotalsA(shiftKey, d, inputs, off) ==
    LET quarters == ALL_SHIFT_DEFINITIONS_A[shiftKey].quarters
        vol == [q \in SeqRange(quarters) |->
                   10 * calculateQuarterVolumeUtilA(q, d, shiftDatesA(d), off)]
        cap == [q \in SeqRange(quarters) |->
                   parseFloatOr(inputsOf(inputs, q.id).plannedRate, DEFAULT_PLANNED_RATE)
                     * parseFloatOr(inputsOf(inputs, q.id).plannedHours, 0)]
    IN  [totalExVol |-> SumOver(quarters, 1, vol),
         totalPlannedVCap |-> SumOver(quarters, 1, cap)]

\* one step of the fold, without the Math.max(0, ...) clamp (a changed copy,
\* used to test the properties)
trajectoryStep_noClamp(shiftKey, accumulatingBacklog, totals) ==
    [shiftKey      |-> shiftKey,
     startBacklog  |-> accumulatingBacklog,
     expectedVol   |-> totals.totalExVol,
     plannedVCap   |-> totals.totalPlannedVCap,
     endBacklog    |-> accumulatingBacklog + totals.totalExVol - totals.totalPlannedVCap]

\* one step of the fold: the record pushed for a shift
trajectoryStep(shiftKey, accumulatingBacklog, totals) ==
    [shiftKey      |-> shiftKey,
     startBacklog  |-> accumulatingBacklog,
     expectedVol   |-> totals.totalExVol,
     plannedVCap   |-> totals.totalPlannedVCap,
     endBacklog    |-> Max(0, accumulatingBacklog + totals.totalExVol
                                 - totals.totalPlannedVCap)]

\* the backlog handed to the next iteration, as if the fold restarted from
\* its first value at every shift (a changed copy, used to test the properties)
nextBacklog_restart(step, first) == first

\* accumulatingBacklog = endOfShiftBacklog
nextBacklog(step, first) == step.endBacklog

RECURSIVE trajectoryFoldA(_, _, _, _, _, _)
trajectoryFoldA(i, accumulatingBacklog, first, d, inputs, off) ==
    IF i > Len(ORDERED_SHIFT_KEYS_A) THEN <<>>
    ELSE LET key  == ORDERED_SHIFT_KEYS_A[i]
             step == trajectoryStep(key, accumulatingBacklog,
                                    shiftTotalsA(key, d, inputs, off))
         IN  <<step>> \o trajectoryFoldA(i + 1, nextBacklog(step, first), first,
                                         d, inputs, off)

\* BacklogTrajectoryCard.trajectoryData
trajectoryDataA(d, inputs, off) ==
    IF ~d.Ledger_Information.present \/ ~d.extended_predictions.present
    THEN [currentBacklog |-> 0, trajectory |-> <<>>]
    ELSE [currentBacklog |-> 10 * currentBacklog(d),
          trajectory |-> trajectoryFoldA(1, 10 * currentBacklog(d),
                                         10 * currentBacklog(d), d, inputs, off)]

\* Copy B, DashboardPage: the series a quarter of the handoff reads
predictionsForQuarterDataB(quarter, d, shiftDates, off) ==
    LET qDate == qActualDateStrB(quarter, shiftDates)
        ext   == predictionsSource(d)
    IN  CASE quarter.dateKey = "current_day_date" -> d.current_day.sarima_predictions
          [] quarter.dateKey = "next_day_date"    -> d.next_day.sarima_predictions
          [] OTHER -> {p \in ext : qDate # NA /\ toISOString(p.Time, off).d = qDate}

\* DashboardPage.getShiftAggregatesForBacklog
getShiftAggregatesForBacklogB(shiftKey, d, inputs, off) ==
    LET quarters   == ALL_SHIFT_DEFINITIONS_B[shiftKey].quarters
        shiftDates == shiftDatesB(d)
        qvol(q) ==
            LET qDate == qActualDateStrB(q, shiftDates)
                preds == predictionsForQuarterDataB(q, d, shiftDates, off)
                endLookupHour == IF q.endHour = 0 THEN 23 ELSE q.endHour - 1
                volAtEnd   == getCumulativeVolumeAtSpecificDateTime(preds, qDate, endLookupHour)
                volAtStart == IF q.startHour = 0 THEN 0
                              ELSE getCumulativeVolumeAtSpecificDateTime(preds, qDate,
                                                                         q.startHour - 1)
            IN  IF qDate = NA THEN 0 ELSE Max(0, volAtEnd - volAtStart)
        vol == [q \in SeqRange(quarters) |-> 10 * qvol(q)]
        cap == [q \in SeqRange(quarters) |->
                   IF qActualDateStrB(q, shiftDates) = NA THEN 0
                   ELSE parseFloatOr(inputsOf(inputs, q.id).plannedRate, 0)
                          * parseFloatOr(inputsOf(inputs, q.id).plannedHours, 0)]
    IN  [totalExVol |-> SumOver(quarters, 1, vol),
         totalPlannedVCap |-> SumOver(quarters, 1, cap)]

\* a timestamp as hours on one axis, to compare two of them
Abs(t) == t.d * 24 + t.h

\* the start and end timestamps handoffTrajectories builds for a shift
\* (Null where the code leaves them undefined or parseDateTime gives null)
shiftWindowB(shiftKey, sd) ==
    CASE shiftKey = "currentNight" ->
            [start |-> parseDateTime(sd.currentDayDateStr, 18),
             end   |-> parseDateTime(sd.nextDayDateStr, 6)]
      [] shiftKey = "nextDay" ->
            [start |-> parseDateTime(sd.nextDayDateStr, 6),
             end   |-> parseDateTime(sd.nextDayDateStr, 18)]
      [] shiftKey = "nextNight" ->
            [start |-> parseDateTime(sd.nextDayDateStr, 18),
             end   |-> parseDateTime(sd.dayAfterNextDateStr, 6)]
      [] shiftKey = "dayAfterNextDay" ->
            [start |-> parseDateTime(sd.dayAfterNextDateStr, 6),
             end   |-> parseDateTime(sd.dayAfterNextDateStr, 18)]
      [] OTHER ->
            [start |-> parseDateTime(sd.dayAfterNextDateStr, 18),
             end   |-> parseDateTime(sd.dayAfterNextPlus1DateStr, 6)]

\* index of the shift whose window contains the clock; the first shift of the
\* catalog when there is none
currentShiftIndexB(d, nowT) ==
    LET sd  == shiftDatesB(d)
        hit == {i \in 1..Len(ORDERED_SHIFT_KEYS_B) :
                   LET w == shiftWindowB(ORDERED_SHIFT_KEYS_B[i], sd)
                   IN  /\ w.start # Null /\ w.end # Null
                       /\ Abs(nowT) >= Abs(w.start) /\ Abs(nowT) < Abs(w.end)}
    IN  IF hit = {} THEN 1 ELSE CHOOSE i \in hit : \A j \in hit : i <= j

RECURSIVE handoffFoldB(_, _, _, _, _, _, _)
handoffFoldB(i, last, accumulatingBacklog, first, d, inputs, off) ==
    IF i > last THEN <<>>
    ELSE LET key  == ORDERED_SHIFT_KEYS_B[i]
             step == trajectoryStep(key, accumulatingBacklog,
                                    getShiftAggregatesForBacklogB(key, d, inputs, off))
         IN  <<step>> \o handoffFoldB(i + 1, last, nextBacklog(step, first), first,
                                      d, inputs, off)

\* DashboardPage.handoffTrajectories
handoffTrajectoriesB(d, inputs, nowT, off) ==
    IF d.current_day.date = NA THEN <<>>
    ELSE LET trajectoryStartShiftIndex == currentShiftIndexB(d, nowT) + 1
             last == IF trajectoryStartShiftIndex + 2 <= Len(ORDERED_SHIFT_KEYS_B)
                     THEN trajectoryStartShiftIndex + 2 ELSE Len(ORDERED_SHIFT_KEYS_B)
             start == IF d.Ledger_Information.present THEN 10 * currentBacklog(d) ELSE 0
         IN  handoffFoldB(trajectoryStartShiftIndex, last, start, start, d, inputs, off)

----------------------------------------------------------------------------
(* Specification SpecTraj: the backlog trajectory of both copies on the     *)
(* snapshots of TrajSnapshots, the plan stores of PlanStores and the clock  *)
(* readings of Clock                                                        *)

\* The clock reads 07:00 or 19:00 of one of the days Today .. Today+ClockDays.
ClockDays == 3

Clock == {[d |-> Today + i, h |-> h] : i \in 0..ClockDays, h \in {7, 19}}

LedgerChoices ==
    {[present |-> FALSE, APU |-> <<>>, Eligible |-> <<>>]} \cup
    {[present |-> TRUE, APU |-> <<>>, Eligible |-> <<0>>],
     [present |-> TRUE, APU |-> <<30, 120>>, Eligible |-> <<>>],
     [present |-> TRUE, APU |-> <<30, 120>>, Eligible |-> <<40>>]}

TrajSnapshots ==
    {Snapshot(1, cd, nd, DayPoints(Today, sar), DayPoints(Today + 1, sar),
              ext.present, IF ext.present THEN Series(ext.pa, "dense") ELSE {},
              l.present, l.APU, l.Eligible) :
        cd \in {NA, Today}, nd \in {NA, Today + 1}, sar \in {"dense", "none"},
        ext \in {[present |-> FALSE, pa |-> "none"], [present |-> TRUE, pa |-> "dense"],
                 [present |-> TRUE, pa |-> "noisy"]},
        l \in LedgerChoices}

\* Plan stores: no entry; half an hour / twelve hours per quarter at the
\* default rate; entries without a rate; entries of empty strings; entries
\* for the quarters of the first two shifts only, at rate 0.
PlanStores ==
    { <<>>,
      [id \in QuarterIds |-> [plannedHours |-> Num(5),   plannedRate |-> Num(65)]],
      [id \in QuarterIds |-> [plannedHours |-> Num(120), plannedRate |-> Num(65)]],
      [id \in QuarterIds |-> [plannedHours |-> Num(30),  plannedRate |-> UNDEF]],
      [id \in QuarterIds |-> [plannedHours |-> EMPTY,    plannedRate |-> EMPTY]],
      [id \in {"cnq1", "cnq2", "cnq3", "cnq4", "ndq1", "ndq2", "ndq3", "ndq4"} |->
          [plannedHours |-> Num(10), plannedRate |-> Num(0)]] }

InitTraj ==
    /\ data \in TrajSnapshots
    /\ tz \in TZOffsets
    /\ now \in Clock
    /\ planInputs \in PlanStores
    /\ calc = [op |-> "none"]
    /\ AppIdle

\* BacklogTrajectoryCard.trajectoryData of copy A
ProjectA ==
    /\ calc' = [op |-> "trajA", steps |-> trajectoryDataA(data, planInputs, tz).trajectory]
    /\ UNCHANGED <<data, tz, now, planInputs>>
    /\ UNCHANGED appVars

\* DashboardPage.handoffTrajectories of copy B
ProjectB ==
    /\ calc' = [op |-> "trajB", steps |-> handoffTrajectoriesB(data, planInputs, now, tz)]
    /\ UNCHANGED <<data, tz, now, planInputs>>
    /\ UNCHANGED appVars

NextTraj == ProjectA \/ ProjectB

SpecTraj == InitTraj /\ [][NextTraj]_vars

----------------------------------------------------------------------------
(* Properties of the backlog trajectory (checked under SpecTraj) *)

Projected == calc.op \in {"trajA", "trajB"}

\* last APU value + last Eligible value of the ledger, each 0 when missing,
\* in tenths of a unit
LedgerBacklog ==
    LET m == data.Ledger_Information.metrics
        apu  == IF data.Ledger_Information.present /\ Len(m.APU) > 0
                THEN m.APU[Len(m.APU)] ELSE 0
        elig == IF data.Ledger_Information.present /\ Len(m.Eligible) > 0
                THEN m.Eligible[Len(m.Eligible)] ELSE 0
    IN  10 * (apu + elig)

\* C5: the trajectory is a sequential fold: the first step starts from the
\* current backlog of the ledger, every step ends at
\* max(0, startBacklog + expectedVolume - plannedCapacity), and every later
\* step starts from the end of the step before it.
C5_SequentialFold ==
    Projected =>
        /\ Len(calc.steps) > 0 => calc.steps[1].startBacklog = LedgerBacklog
        /\ \A i \in 1..Len(calc.steps) :
              calc.steps[i].endBacklog =
                  Max(0, calc.steps[i].startBacklog + calc.steps[i].expectedVol
                         - calc.steps[i].plannedVCap)
        /\ \A i \in 1..(Len(calc.steps) - 1) :
              calc.steps[i + 1].startBacklog = calc.steps[i].endBacklog

\* C5 witness: a projection of three steps from a positive ledger backlog in
\* which the backlog handed over changes from step to step.
C5_Witness ==
    /\ Projected
    /\ Len(calc.steps) = 3
    /\ calc.steps[1].startBacklog = 1600
    /\ calc.steps[1].endBacklog # calc.steps[1].startBacklog
    /\ calc.steps[2].endBacklog # calc.steps[2].startBacklog
    /\ calc.steps[3].startBacklog > 0

\* C6: every endBacklog of the trajectory is >= 0.
C6_BacklogNonNegative ==
    Projected => \A i \in 1..Len(calc.steps) : calc.steps[i].endBacklog >= 0

\* C6 witness: a step whose planned capacity exceeds start backlog plus
\* expected volume, and whose end backlog is the clamp 0.
C6_Witness ==
    /\ Projected
    /\ \E i \in 1..Len(calc.steps) :
          /\ calc.steps[i].startBacklog + calc.steps[i].expectedVol
                < calc.steps[i].plannedVCap
          /\ calc.steps[i].endBacklog = 0

\* The concrete interval of a shift: it starts at the start hour of its first
\* quarter on that quarter's date and lasts its four three-hour quarters.
ShiftStartAbs(shiftKey) ==
    LET q == ALL_SHIFT_DEFINITIONS_B[shiftKey].quarters[1]
    IN  Abs([d |-> qActualDateStrB(q, shiftDatesB(data)), h |-> q.startHour])

ShiftEndAbs(shiftKey) == ShiftStartAbs(shiftKey) + 12

OrderedKeys == IF calc.op = "trajA" THEN ORDERED_SHIFT_KEYS_A ELSE ORDERED_SHIFT_KEYS_B

\* C7: with the anchor dates resolved, no step is emitted for a shift that
\* is past or current (every projected shift starts after the clock reading),
\* and when the clock lies in the interval of a catalog shift the first step
\* belongs to the shift that follows it in the catalog.
C7_OnlyUpcomingShifts ==
    ( /\ Projected
      /\ data.current_day.date = Today
      /\ data.next_day.date = Today + 1 )
    => /\ \A i \in 1..Len(calc.steps) :
             ShiftStartAbs(calc.steps[i].shiftKey) > Abs(now)
       /\ \A c \in 1..Len(OrderedKeys) :
             ( /\ ShiftStartAbs(OrderedKeys[c]) <= Abs(now)
               /\ Abs(now) < ShiftEndAbs(OrderedKeys[c])
               /\ Len(calc.steps) > 0 )
             => /\ c < Len(OrderedKeys)
                /\ calc.steps[1].shiftKey = OrderedKeys[c + 1]

----------------------------------------------------------------------------
(* PDPPage: the plan the auto-balance solves                                *)

\* the catalog quarter of an id
quarterA(id) == CHOOSE q \in QuartersA : q.id = id
quarterB(id) == CHOOSE q \in QuartersB : q.id = id

\* The odd k below 200 for which the double nearest to k/20 lies below k/20:
\* toFixed(1) takes such a quotient, half way between two tenths, down; the
\* other half-way quotients (the double is k/20 or above it) go up.
HalfWayDown ==
    {3, 7, 17, 19, 23, 29, 33, 39, 41, 43, 51, 53, 61, 63, 71, 73, 81, 87, 91, 97,
     101, 107, 111, 117, 121, 127, 131, 137, 141, 147, 151, 157, 167, 169, 177,
     179, 187, 189, 197, 199}

\* sensibleHoursToSolve with the quotient cut to one decimal instead of
\* rounded (a changed copy, used to test the properties)
sensibleHoursToSolve_cut(exVolForQuarter, tph) ==
    IF tph > 0 /\ 20 * exVolForQuarter > tph
    THEN (10 * exVolForQuarter) \div tph
    ELSE 0

\* hoursToSolve > 0.05 ? parseFloat(hoursToSolve.toFixed(1)) : 0, with
\* hoursToSolve = exVolForQuarter / targetTPH (0 when targetTPH <= 0), in
\* tenths of an hour.
sensibleHoursToSolve(exVolForQuarter, tph) ==
    IF tph > 0 /\ 20 * exVolForQuarter > tph
    THEN IF (20 * exVolForQuarter) % tph = 0
            /\ ((20 * exVolForQuarter) \div tph) \in HalfWayDown
         THEN (20 * exVolForQuarter - tph) \div (2 * tph)
         ELSE (20 * exVolForQuarter + tph) \div (2 * tph)
    ELSE 0

\* data.extended_predictions?.predictions?.length > 0
hasExtendedPredictions(d) == predictionsSource(d) # {}

\* start of a shift of copy B: first quarter's date and start hour
shiftStartDateTimeB(shiftKey, sd) ==
    LET firstQuarter == ALL_SHIFT_DEFINITIONS_B[shiftKey].quarters[1]
    IN  parseDateTime(qActualDateStrB(firstQuarter, sd), firstQuarter.startHour)

\* ORDERED_SHIFT_KEYS.slice(from - 1, to) with 1-based inclusive indices
sliceKeysB(from, to) ==
    SubSeq(ORDERED_SHIFT_KEYS_B, from,
           IF to <= Len(ORDERED_SHIFT_KEYS_B) THEN to ELSE Len(ORDERED_SHIFT_KEYS_B))

\* PDPPage.shiftsToDisplay of copy B, as the keys of the shifts displayed
shiftsToDisplayB(d, source, priorDate, nowT) ==
    LET sd == shiftDatesB(d)
        referenceTime == IF source = "latest" THEN nowT ELSE parseDateTime(priorDate, 12)
        upcomingShifts ==
            {i \in 1..Len(ORDERED_SHIFT_KEYS_B) :
                LET s == shiftStartDateTimeB(ORDERED_SHIFT_KEYS_B[i], sd)
                IN  s # Null /\ Abs(s) >= Abs(referenceTime)}
        startOf(i) == Abs(shiftStartDateTimeB(ORDERED_SHIFT_KEYS_B[i], sd))
        nearestShiftIndex ==
            CHOOSE i \in upcomingShifts :
                \A j \in upcomingShifts :
                    startOf(i) < startOf(j) \/ (startOf(i) = startOf(j) /\ i <= j)
    IN  IF sd.currentDayDateStr = NA THEN <<>>
        ELSE IF source # "latest" /\ priorDate = NA THEN sliceKeysB(1, 3)
        ELSE IF upcomingShifts = {}
             THEN sliceKeysB(Len(ORDERED_SHIFT_KEYS_B) - 2, Len(ORDERED_SHIFT_KEYS_B))
        ELSE sliceKeysB(nearestShiftIndex, nearestShiftIndex + 2)

\* ids of the quarters of the shifts displayed by copy B
displayedQuarterIdsB(shifts) ==
    UNION {{q.id : q \in SeqRange(ALL_SHIFT_DEFINITIONS_B[shifts[i]].quarters)} :
              i \in 1..Len(shifts)}

\* the rate the auto-balance keeps for a quarter
\* copy A: the existing rate when it is truthy, the default otherwise
keptRateA(store, id) ==
    LET r == inputsOf(store, id).plannedRate
    IN  IF r.k = "num" /\ r.v # 0 THEN r ELSE Num(DEFAULT_PLANNED_RATE)

\* copy B: the existing rate unless it is undefined
keptRateB(store, id) ==
    LET existingRate == inputsOf(store, id).plannedRate
    IN  IF existingRate # UNDEF THEN existingRate ELSE Num(DEFAULT_PLANNED_RATE)

\* autoBalanceA adding the solved hours to the hours the store holds (a
\* changed copy, used to test the properties)
autoBalanceA_added(d, store, tph, off) ==
    [id \in {q.id : q \in QuartersA} |->
        [plannedHours |-> Num(parseFloatOr(inputsOf(store, id).plannedHours, 0)
                              + sensibleHoursToSolve(
                                    calculateQuarterVolumeUtilA(quarterA(id), d,
                                                                shiftDatesA(d), off),
                                    tph)),
         plannedRate  |-> keptRateA(store, id)]]

\* copy A: the store the auto-balance effect writes (it replaces the store)
autoBalanceA(d, store, tph, off) ==
    [id \in {q.id : q \in QuartersA} |->
        [plannedHours |-> Num(sensibleHoursToSolve(
                              calculateQuarterVolumeUtilA(quarterA(id), d, shiftDatesA(d), off),
                              tph)),
         plannedRate  |-> keptRateA(store, id)]]

\* copy B: newQuarterlyDataForDisplayedShifts
newQuarterlyDataB(d, store, tph, shifts) ==
    [id \in displayedQuarterIdsB(shifts) |->
        [plannedHours |-> Num(sensibleHoursToSolve(
                              calculateQuarterVolumeUtilB(quarterB(id), d, shiftDatesB(d)),
                              tph)),
         plannedRate  |-> keptRateB(store, id)]]

\* { ...currentGlobalInputs, ...update }
mergeInputs(currentGlobalInputs, update) ==
    [id \in DOMAIN currentGlobalInputs \cup DOMAIN update |->
        IF id \in DOMAIN update THEN update[id] ELSE currentGlobalInputs[id]]

\* copy B: initialInputs of the initial-population effect, for the displayed
\* quarters that have no entry in the store the effect was rendered with
initialInputsB(d, store, tph, shifts) ==
    [id \in displayedQuarterIdsB(shifts) \ DOMAIN store |->
        [plannedHours |-> Num(sensibleHoursToSolve(
                              calculateQuarterVolumeUtilB(quarterB(id), d, shiftDatesB(d)),
                              tph)),
         plannedRate  |-> Num(DEFAULT_PLANNED_RATE)]]

\* isNaN(numericValue) ? '' : numericValue
storedValue(value) == IF parseFloat(value) = NaN THEN EMPTY ELSE parseFloat(value)

\* handleInputChange below, storing the parsed value as it is (a changed
\* copy, used to test the properties)
handleInputChange_unchecked(store, quarterId, field, value) ==
    LET entry == inputsOf(store, quarterId)
        next  == IF field = "plannedHours"
                 THEN [entry EXCEPT !.plannedHours = parseFloat(value)]
                 ELSE [entry EXCEPT !.plannedRate = parseFloat(value)]
    IN  [id \in DOMAIN store \cup {quarterId} |->
            IF id = quarterId THEN next ELSE store[id]]

\* handleInputChange below, replacing the entry of the quarter by the edited
\* field alone (a changed copy, used to test the properties)
handleInputChange_replaced(store, quarterId, field, value) ==
    LET entry == [plannedHours |-> UNDEF, plannedRate |-> UNDEF]
        next  == IF field = "plannedHours"
                 THEN [entry EXCEPT !.plannedHours = storedValue(value)]
                 ELSE [entry EXCEPT !.plannedRate = storedValue(value)]
    IN  [id \in DOMAIN store \cup {quarterId} |->
            IF id = quarterId THEN next ELSE store[id]]

\* handleInputChange / handleQuarterlyInputChange: value is the typed text;
\* the field takes the parsed number, '' when the text is not a number
handleInputChange(store, quarterId, field, value) ==
    LET entry == inputsOf(store, quarterId)
        next  == IF field = "plannedHours"
                 THEN [entry EXCEPT !.plannedHours = storedValue(value)]
                 ELSE [entry EXCEPT !.plannedRate = storedValue(value)]
    IN  [id \in DOMAIN store \cup {quarterId} |->
            IF id = quarterId THEN next ELSE store[id]]

\* setTriggerAutoBalance(false) of the auto-balance effect, without the reset
\* (a changed copy, used to test the properties)
triggerAfterEffect_kept(applied, trigger) == trigger

\* the trigger flag after the auto-balance effect ran
triggerAfterEffect(applied, trigger) == IF applied THEN FALSE ELSE trigger

----------------------------------------------------------------------------
(* Specification SpecApp: a session of the application.  The environment is *)
(* the snapshot server, the refresh timer and the user; React runs the      *)
(* effects of a committed render before it handles the next event.          *)

\* Fetches the session may have in flight at once.
MaxInFlight == 2

\* Days before Today for which the server keeps a snapshot.
PriorDaysKept == 1

SeriesFrom(day, kind) == UNION {DayPoints(day + i, kind) : i \in 0..3}

\* a complete snapshot published for operational day cd
ServerSnapshot(time, cd, kind) ==
    Snapshot(time, cd, cd + 1, {}, {}, TRUE, SeriesFrom(cd, kind), TRUE, <<30>>, <<10>>)

\* What fetchLatestAvailableData may resolve to: one of the snapshots the
\* server publishes for Today (the second has an empty predictions array), or
\* DEFAULT_VIZ_DATA when every attempt failed.
LatestResults ==
    {ServerSnapshot(1, Today, "dense"), ServerSnapshot(2, Today, "none"),
     DEFAULT_VIZ_DATA}

\* What fetchDataForSpecificDay may resolve to: the snapshot of the target
\* day when the server keeps one, or null (DEFAULT_VIZ_DATA stands for null:
\* the caller treats null and time "N/A" alike).
PriorResults(target) ==
    {DEFAULT_VIZ_DATA} \cup
    (IF target # NA /\ target >= Today - PriorDaysKept /\ target < Today
     THEN {ServerSnapshot(3, target, "example")} ELSE {})

\* what the user types into a plan-input field (0.7 hours; a cleared rate) or
\* into the target field, parsed
UserTyped == {[field |-> "plannedHours", value |-> Num(7)],
              [field |-> "plannedRate",  value |-> EMPTY]}
TargetTyped == {Num(30), EMPTY}

\* the quarters whose inputs the user edits in this session
EditedQuarters == {"ndq1"}

AppClock == {[d |-> Today, h |-> 7]}

InitApp ==
    /\ data = DEFAULT_VIZ_DATA
    /\ tz = 0
    /\ now \in AppClock
    /\ planInputs = <<>>
    /\ calc = [op |-> "none"]
    /\ copy \in {"A", "B"}
    /\ currentView = "dashboard"
    /\ vizData = DEFAULT_VIZ_DATA
    /\ isLoading = TRUE
    /\ quarterlyInputs = <<>>
    /\ targetTPH = DEFAULT_TARGET_TPH
    /\ activeDataSource = "latest"
    /\ dateOfLatestDataLoaded = NA
    /\ dateOfPriorDayView = NA
    /\ pdpMounted = FALSE
    /\ triggerAutoBalance = FALSE
    /\ effects = {}
    \* the mount effect has called loadData() / loadLatestData()
    /\ fetches = {[id |-> 1, kind |-> "latest", isAutoRefresh |-> FALSE,
                   timeNA |-> TRUE, target |-> NA, latestRef |-> NA]}
    /\ hist = [NoHistory EXCEPT !.started = <<1>>]
    /\ probe = NoProbe

\* whether App renders a PDPPage
\* copy A: both pages are rendered once isLoading is false
\* copy B: only the page of currentView, and not under the loading screen
rendersPDPPage(cp, view, loading, d) ==
    IF cp = "A" THEN ~loading
    ELSE view = "pdp" /\ ~(loading /\ d.time = NA)

shiftsToDisplay == shiftsToDisplayB(vizData, activeDataSource, dateOfPriorDayView, now)

\* the PDPPage shows its controls and inputs
pdpVisible ==
    /\ pdpMounted /\ currentView = "pdp" /\ vizData.time # NA
    /\ copy = "B" => (vizData.current_day.date # NA /\ shiftsToDisplay # <<>>)

displayedQuarterIds ==
    IF copy = "A" THEN {q.id : q \in QuartersA}
    ELSE displayedQuarterIdsB(shiftsToDisplay)

\* The render committed after a handler: a PDPPage that was not rendered
\* before is mounted with useState(true); the effects of the render are
\* scheduled.  depsChanged tells whether the dependencies of copy B's
\* initial-population effect changed.
Commit(trigger, depsChanged) ==
    /\ pdpMounted' = rendersPDPPage(copy, currentView', isLoading', vizData')
    /\ triggerAutoBalance' = IF ~pdpMounted' THEN FALSE
                             ELSE IF pdpMounted THEN trigger ELSE TRUE
    /\ effects' = IF ~pdpMounted' THEN {}
                  ELSE {"autoBalance"} \cup
                       (IF copy = "B" /\ (depsChanged \/ ~pdpMounted)
                        THEN {"initialPopulation"} ELSE {})

FreeId == CHOOSE i \in 1..MaxInFlight : \A f \in fetches : f.id # i

Fetch(id, kind, auto, target) ==
    [id |-> id, kind |-> kind, isAutoRefresh |-> auto, timeNA |-> vizData.time = NA,
     target |-> target, latestRef |-> dateOfLatestDataLoaded]

\* The observations after a step: whether the step applied auto-balance,
\* whether auto-balance has been applied in the session, and the values the
\* user entered after the first auto-balance and since the last press of
\* "Apply Optimal Hrs".
Observed(applied, user) ==
    [hist EXCEPT !.applied = applied, !.balanced = hist.balanced \/ applied,
                 !.user = user]

\* The order in which the fetches in flight were started (hist.started, the
\* ids from the oldest to the newest) and the fetches in flight that were
\* started before the fetch whose outcome is the active snapshot (hist.outrun).
fetchStarted(h, id) == [h EXCEPT !.started = Append(@, id)]

\* fetch id has completed; setsSnapshot tells whether its handler called
\* setVizData
fetchEnded(h, id, setsSnapshot) ==
    LET pos == CHOOSE i \in 1..Len(h.started) : h.started[i] = id
    IN  [h EXCEPT !.started = SubSeq(@, 1, pos - 1) \o SubSeq(@, pos + 1, Len(@)),
                  !.outrun  = IF setsSnapshot
                              THEN {h.started[i] : i \in 1..(pos - 1)}
                              ELSE @ \ {id}]

envVars == <<data, tz, now, planInputs, calc, copy, probe>>
sourceVars == <<activeDataSource, dateOfLatestDataLoaded, dateOfPriorDayView>>

\* The effects of the committed render: the auto-balance effect of PDPPage
\* and, in copy B, the initial-population effect, which reads the store the
\* render was made with and is applied after the auto-balance update.
\* the guard of the auto-balance effect without its conditions on the
\* snapshot and the target (a changed copy, used to test the properties)
effectApplies_eager(pending, trigger, viz, shifts, target, cp) ==
    "autoBalance" \in pending /\ trigger

\* whether the auto-balance effect of a committed render applies
effectApplies(pending, trigger, viz, shifts, target, cp) ==
    /\ "autoBalance" \in pending
    /\ trigger
    /\ hasExtendedPredictions(viz)
    /\ cp = "B" => shifts # <<>>
    /\ target > 0

\* the store the effects of a committed render leave
storeAfterEffects(pending, trigger, viz, store, shifts, target, cp, offset) ==
    LET balanced == IF ~effectApplies(pending, trigger, viz, shifts, target, cp)
                    THEN store
                    ELSE IF cp = "A"
                         THEN autoBalanceA(viz, store, target, offset)
                         ELSE mergeInputs(store,
                                  newQuarterlyDataB(viz, store, target, shifts))
        populate == /\ "initialPopulation" \in pending
                    /\ hasExtendedPredictions(viz)
                    /\ shifts # <<>>
                    /\ target > 0
    IN  IF populate
        THEN mergeInputs(balanced, initialInputsB(viz, store, target, shifts))
        ELSE balanced

RunEffects ==
    /\ effects # {}
    /\ LET applied == effectApplies(effects, triggerAutoBalance, vizData,
                                    shiftsToDisplay, targetTPH, copy)
       IN  /\ quarterlyInputs' =
                 storeAfterEffects(effects, triggerAutoBalance, vizData, quarterlyInputs,
                                   shiftsToDisplay, targetTPH, copy, tz)
           /\ triggerAutoBalance' = triggerAfterEffect(applied, triggerAutoBalance)
           /\ hist' = Observed(applied, hist.user)
    /\ effects' = {}
    /\ UNCHANGED <<currentView, vizData, isLoading, targetTPH, pdpMounted, fetches>>
    /\ UNCHANGED sourceVars
    /\ UNCHANGED envVars

\* Header: setCurrentView
SetCurrentView(view) ==
    /\ effects = {}
    /\ view # currentView
    /\ currentView' = view
    /\ UNCHANGED <<vizData, isLoading, quarterlyInputs, targetTPH, fetches>>
    /\ UNCHANGED sourceVars
    /\ UNCHANGED envVars
    /\ hist' = Observed(FALSE, hist.user)
    /\ Commit(triggerAutoBalance, FALSE)

\* The refresh interval fires: loadData(true) / loadLatestData(true)
TimerTick ==
    /\ effects = {}
    /\ IF copy = "A" THEN currentView = "dashboard" ELSE activeDataSource = "latest"
    /\ Cardinality(fetches) < MaxInFlight
    /\ fetches' = fetches \cup {Fetch(FreeId, "latest", TRUE, NA)}
    /\ hist' = fetchStarted(Observed(FALSE, hist.user), FreeId)
    /\ UNCHANGED <<currentView, vizData, isLoading, quarterlyInputs, targetTPH,
                   pdpMounted, triggerAutoBalance, effects>>
    /\ UNCHANGED sourceVars
    /\ UNCHANGED envVars

\* Copy B, "View Latest Plan": onClick={switchToLatestView} calls
\* loadLatestData(event), so isAutoRefresh is truthy
SwitchToLatestView ==
    /\ effects = {}
    /\ copy = "B" /\ pdpVisible
    /\ activeDataSource # "latest"
    /\ Cardinality(fetches) < MaxInFlight
    /\ fetches' = fetches \cup {Fetch(FreeId, "latest", TRUE, NA)}
    /\ hist' = fetchStarted(Observed(FALSE, hist.user), FreeId)
    /\ UNCHANGED <<currentView, vizData, isLoading, quarterlyInputs, targetTPH,
                   pdpMounted, triggerAutoBalance, effects>>
    /\ UNCHANGED sourceVars
    /\ UNCHANGED envVars

\* Copy B, "View Prior Day's Plan": loadPriorDayData up to its await
SwitchToPriorDayView ==
    /\ effects = {}
    /\ copy = "B" /\ pdpVisible
    /\ (IF activeDataSource = "latest" THEN dateOfLatestDataLoaded
                                       ELSE dateOfPriorDayView) # NA
    /\ Cardinality(fetches) < MaxInFlight
    /\ LET referenceDateForPrior ==
               IF activeDataSource = "latest" /\ dateOfLatestDataLoaded # NA
               THEN dateOfLatestDataLoaded
               ELSE IF activeDataSource = "priorDay" /\ dateOfPriorDayView # NA
               THEN dateOfPriorDayView
               ELSE dateOfLatestDataLoaded
           targetPriorDate == getOffsetDateString(referenceDateForPrior, -1)
       IN  IF targetPriorDate = NA
           THEN /\ isLoading' = FALSE /\ UNCHANGED fetches
                /\ hist' = Observed(FALSE, hist.user)
           ELSE /\ isLoading' = TRUE
                /\ fetches' = fetches \cup {Fetch(FreeId, "prior", FALSE, targetPriorDate)}
                /\ hist' = fetchStarted(Observed(FALSE, hist.user), FreeId)
    /\ UNCHANGED <<currentView, vizData, quarterlyInputs, targetTPH>>
    /\ UNCHANGED sourceVars
    /\ UNCHANGED envVars
    /\ Commit(triggerAutoBalance, FALSE)

\* loadData / loadLatestData after its await
LatestDone(f, result) ==
    /\ effects = {}
    /\ f.kind = "latest"
    /\ fetches' = fetches \ {f}
    /\ IF copy = "A"
       THEN /\ vizData' = result
            /\ UNCHANGED sourceVars
       ELSE IF result.time # NA
       THEN /\ vizData' = result
            /\ activeDataSource' = "latest"
            /\ dateOfLatestDataLoaded' = result.current_day.date
            /\ dateOfPriorDayView' = NA
       ELSE /\ vizData' = IF f.timeNA THEN DEFAULT_VIZ_DATA ELSE vizData
            /\ UNCHANGED sourceVars
    /\ isLoading' = IF f.isAutoRefresh THEN isLoading ELSE FALSE
    /\ UNCHANGED <<currentView, quarterlyInputs, targetTPH>>
    /\ UNCHANGED envVars
    /\ hist' = fetchEnded(Observed(FALSE, hist.user), f.id,
                          copy = "A" \/ result.time # NA \/ f.timeNA)
    /\ Commit(triggerAutoBalance, copy = "A" \/ result.time # NA \/ f.timeNA)

\* loadPriorDayData after its await
PriorDone(f, priorData) ==
    /\ effects = {}
    /\ f.kind = "prior"
    /\ IF priorData.time # NA
       THEN /\ vizData' = priorData
            /\ activeDataSource' = "priorDay"
            /\ dateOfPriorDayView' = priorData.current_day.date
            /\ UNCHANGED dateOfLatestDataLoaded
            /\ fetches' = fetches \ {f}
       ELSE IF f.latestRef # NA
       THEN \* loadLatestData(): a fetch of the latest snapshot is started
            /\ fetches' = (fetches \ {f}) \cup
                   {[id |-> f.id, kind |-> "latest", isAutoRefresh |-> FALSE,
                     timeNA |-> f.timeNA, target |-> NA, latestRef |-> f.latestRef]}
            /\ UNCHANGED vizData
            /\ UNCHANGED sourceVars
       ELSE /\ vizData' = DEFAULT_VIZ_DATA
            /\ activeDataSource' = "latest"
            /\ UNCHANGED <<dateOfLatestDataLoaded, dateOfPriorDayView>>
            /\ fetches' = fetches \ {f}
    /\ isLoading' = FALSE
    /\ UNCHANGED <<currentView, quarterlyInputs, targetTPH>>
    /\ UNCHANGED envVars
    /\ hist' = IF priorData.time = NA /\ f.latestRef # NA
               THEN fetchStarted(fetchEnded(Observed(FALSE, hist.user), f.id, FALSE), f.id)
               ELSE fetchEnded(Observed(FALSE, hist.user), f.id, TRUE)
    /\ Commit(triggerAutoBalance, priorData.time # NA \/ f.latestRef = NA)

\* The user types into a plan-input field of a displayed quarter
EditInput(quarterId, field, value) ==
    /\ effects = {}
    /\ pdpVisible
    /\ quarterId \in displayedQuarterIds
    /\ quarterlyInputs' = handleInputChange(quarterlyInputs, quarterId, field, value)
    /\ UNCHANGED <<currentView, vizData, isLoading, targetTPH, fetches>>
    /\ UNCHANGED sourceVars
    /\ UNCHANGED envVars
    /\ hist' = Observed(FALSE,
                   IF ~hist.balanced THEN hist.user
                   ELSE {e \in hist.user : ~(e.quarterId = quarterId /\ e.field = field)}
                        \cup {[quarterId |-> quarterId, field |-> field,
                               value |-> storedValue(value)]})
    /\ Commit(triggerAutoBalance, FALSE)

\* The user types into the target-throughput field:
\* parseFloat(e.target.value) || 0 in copy A, || DEFAULT_TARGET_TPH in copy B
SetTargetTPH(typed) ==
    /\ effects = {}
    /\ pdpVisible
    /\ targetTPH' = parseFloatOr(typed, IF copy = "A" THEN 0 ELSE DEFAULT_TARGET_TPH)
    /\ UNCHANGED <<currentView, vizData, isLoading, quarterlyInputs, fetches>>
    /\ UNCHANGED sourceVars
    /\ UNCHANGED envVars
    /\ hist' = Observed(FALSE, hist.user)
    /\ Commit(triggerAutoBalance, targetTPH' # targetTPH)

\* "Apply Optimal Hrs": setTriggerAutoBalance(true)
ApplyOptimalHrs ==
    /\ effects = {}
    /\ pdpVisible
    /\ UNCHANGED <<currentView, vizData, isLoading, quarterlyInputs, targetTPH, fetches>>
    /\ UNCHANGED sourceVars
    /\ UNCHANGED envVars
    /\ hist' = Observed(FALSE, {})
    /\ Commit(TRUE, FALSE)

NextApp ==
    \/ RunEffects
    \/ \E view \in {"dashboard", "pdp"} : SetCurrentView(view)
    \/ TimerTick
    \/ SwitchToLatestView
    \/ SwitchToPriorDayView
    \/ \E f \in fetches, result \in LatestResults : LatestDone(f, result)
    \/ \E f \in fetches : \E priorData \in PriorResults(f.target) : PriorDone(f, priorData)
    \/ \E quarterId \in EditedQuarters, typed \in UserTyped :
          EditInput(quarterId, typed.field, typed.value)
    \/ \E typed \in TargetTyped : SetTargetTPH(typed)
    \/ ApplyOptimalHrs

SpecApp == InitApp /\ [][NextApp]_vars

----------------------------------------------------------------------------
(* Properties of SpecApp *)

\* C8: auto-balance is one-shot per trigger: a step in which the auto-balance
\* effect writes the solved hours starts with the trigger flag set and ends
\* with it clear, so while the flag is clear no change of the snapshot, the
\* target throughput or the plan inputs applies auto-balance again.
C8_OneShotPerTrigger ==
    [][hist'.applied => (triggerAutoBalance /\ ~triggerAutoBalance')]_vars

\* auto-balance has just been applied again, at the target the user changed
\* to, on the first snapshot, and the flag is clear
C8_Witness ==
    /\ hist.applied
    /\ ~triggerAutoBalance
    /\ targetTPH = 30
    /\ vizData.time = 1
    /\ inputsOf(quarterlyInputs, "ndq1").plannedHours = Num(20)

\* C9: every value the user entered into a plan-input field after the first
\* auto-balance and since the last press of "Apply Optimal Hrs" is still the
\* value of that field in the store.
C9_UserEntriesKept ==
    \A e \in hist.user : inputsOf(quarterlyInputs, e.quarterId)[e.field] = e.value

\* C10: at most one snapshot fetch is in flight.
C10_OneFetchInFlight == Cardinality(fetches) <= 1

\* App shows the loading screen instead of the pages
loadingScreen(cp, loading, d) ==
    IF cp = "A" THEN loading ELSE loading /\ d.time = NA

\* C12: once a snapshot other than the default is active, and every fetch in
\* flight was started after it became active, no step (a refresh starting,
\* being in flight, or failing on every candidate) makes the default
\* placeholder the active snapshot or brings the loading screen back.
C12_ActiveSnapshotKept ==
    [][ (vizData.time # NA /\ \A f \in fetches : ~f.timeNA)
        => /\ vizData'.time # NA
           /\ ~loadingScreen(copy, isLoading', vizData') ]_vars

----------------------------------------------------------------------------
(* Specification SpecFetch: one call of ApiService.fetchLatestAvailableData *)
(* against a server that answers each probe as it likes                     *)

maxAttempts == 48

\* baseTime.setHours(baseTime.getHours() - 1)
hourEarlier(t) ==
    IF t.h = 0 THEN [d |-> t.d - 1, h |-> 23] ELSE [d |-> t.d, h |-> t.h - 1]

\* a document that parses but lacks the next-day date and the
\* extended-predictions section
PartialDocument == Snapshot(2, Today, NA, {}, {}, FALSE, {}, TRUE, <<>>, <<>>)

\* What a probe of one candidate may meet: fetch() rejects, a response that
\* is not ok, an ok response whose body response.json() rejects, or an ok
\* response with a parsed document.
Responses ==
    {[kind |-> k, body |-> DEFAULT_VIZ_DATA] : k \in {"networkError", "notOk", "unparsable"}}
    \cup
    {[kind |-> "document", body |-> b] :
        b \in {ServerSnapshot(1, Today, "dense"), PartialDocument}}

\* the structure test copy B applies to a parsed document
hasExpectedStructures(doc) ==
    /\ doc.current_day.date # NA
    /\ doc.next_day.date # NA
    /\ doc.Ledger_Information.present
    /\ doc.extended_predictions.present

\* returnsDocument below, changed to accept no document (a changed copy, used
\* to test the properties)
returnsDocument_none(cp, response) == FALSE

\* whether an attempt returns the response's document: copy A returns any
\* parsed document, copy B one that has the expected structures
returnsDocument(cp, response) ==
    /\ response.kind = "document"
    /\ cp = "B" => hasExpectedStructures(response.body)

\* the end of a failed attempt, without the step to the earlier candidate
\* (a changed copy, used to test the properties)
afterFailedAttempt_sameHour(p) == [p EXCEPT !.attempts = @ + 1]

\* the end of a failed attempt: baseTime one hour earlier, attempts++
afterFailedAttempt(p) ==
    [p EXCEPT !.attempts = @ + 1, !.baseTime = hourEarlier(@)]

InitFetch ==
    /\ data = DEFAULT_VIZ_DATA
    /\ tz = 0
    /\ now \in Clock
    /\ planInputs = <<>>
    /\ calc = [op |-> "none"]
    /\ copy \in {"A", "B"}
    /\ currentView = "dashboard"
    /\ vizData = DEFAULT_VIZ_DATA
    /\ isLoading = TRUE
    /\ quarterlyInputs = <<>>
    /\ targetTPH = DEFAULT_TARGET_TPH
    /\ activeDataSource = "latest"
    /\ dateOfLatestDataLoaded = NA
    /\ dateOfPriorDayView = NA
    /\ pdpMounted = FALSE
    /\ triggerAutoBalance = FALSE
    /\ effects = {}
    /\ fetches = {}
    /\ hist = NoHistory
    /\ probe = [pc |-> "probing", attempts |-> 0, baseTime |-> now,
                vizDataResult |-> DEFAULT_VIZ_DATA, skipped |-> {}]

fetchFrame ==
    <<data, tz, now, planInputs, calc, copy, currentView, vizData, isLoading,
      quarterlyInputs, targetTPH, activeDataSource, dateOfLatestDataLoaded,
      dateOfPriorDayView, pdpMounted, triggerAutoBalance, effects, fetches, hist>>

\* one pass of the loop: the probe of the candidate at baseTime settles
\* (skipped keeps the documents of the candidates the call passed over)
Attempt(response) ==
    /\ probe.pc = "probing"
    /\ probe.attempts < maxAttempts
    /\ probe' = IF returnsDocument(copy, response)
                THEN [probe EXCEPT !.pc = "returned", !.vizDataResult = response.body]
                ELSE [afterFailedAttempt(probe) EXCEPT
                         !.skipped = IF response.kind = "document"
                                     THEN @ \cup {response.body} ELSE @]
    /\ UNCHANGED fetchFrame

\* the loop ends without a document: return DEFAULT_VIZ_DATA
Exhausted ==
    /\ probe.pc = "probing"
    /\ probe.attempts >= maxAttempts
    /\ probe' = [probe EXCEPT !.pc = "returned", !.vizDataResult = DEFAULT_VIZ_DATA]
    /\ UNCHANGED fetchFrame

NextFetch ==
    \/ \E response \in Responses : Attempt(response)
    \/ Exhausted

SpecFetch == InitFetch /\ [][NextFetch]_vars

\* The runtime resumes the call whenever the request it awaits has settled,
\* and every request settles.
SpecFetchLive == SpecFetch /\ WF_vars(NextFetch)

----------------------------------------------------------------------------
(* Properties of SpecFetch *)

FetchBudgetKept ==
    /\ probe.attempts <= maxAttempts
    /\ Abs(now) - Abs(probe.baseTime) = probe.attempts
    /\ probe.pc = "returned" =>
          \/ probe.attempts = maxAttempts /\ probe.vizDataResult = DEFAULT_VIZ_DATA
          \/ /\ probe.attempts < maxAttempts
             /\ returnsDocument(copy, [kind |-> "document", body |-> probe.vizDataResult])

FetchStep ==
    \/ probe'.pc = "returned"
    \/ /\ probe'.pc = "probing"
       /\ probe'.attempts = probe.attempts + 1
       /\ probe'.baseTime = hourEarlier(probe.baseTime)

\* C11: a call makes at most 48 attempts, the candidate of attempt n lies n
\* hours before the clock reading of the call, every step either returns or
\* moves to the candidate one hour earlier, a call whose attempts all failed
\* returns DEFAULT_VIZ_DATA after the 48th, and every call returns.
C11_FetchTerminates ==
    /\ []FetchBudgetKept
    /\ [][FetchStep]_vars
    /\ <>(probe.pc = "returned")

\* every attempt of a call of copy B failed and it returned the default
C11_Witness ==
    /\ copy = "B"
    /\ probe.pc = "returned"
    /\ probe.attempts = maxAttempts
    /\ probe.vizDataResult = DEFAULT_VIZ_DATA

----------------------------------------------------------------------------
(* Shift aggregator (ShiftQuarterPlannerCard.shiftAggregates).  Volumes are *)
(* in units, planned hours in tenths of an hour, capacity in tenths of a    *)
(* unit; a quotient is kept as the pair of its numerator and denominator.   *)

Ratio(n, d) == [num |-> n, den |-> d]

\* the changed copy of shiftAggregatesA below in which a quarter counts no
\* more volume than its planned capacity (used to test the properties)
shiftAggregatesA_capped(shiftKey, d, inputs, tph, off) ==
    LET quarters == ALL_SHIFT_DEFINITIONS_A[shiftKey].quarters
        hrs == [q \in SeqRange(quarters) |->
                   parseFloatOr(inputsOf(inputs, q.id).plannedHours, 0)]
        cap == [q \in SeqRange(quarters) |->
                   hrs[q] * parseFloatOr(inputsOf(inputs, q.id).plannedRate, 0)]
        vol == [q \in SeqRange(quarters) |->
                   LET v == calculateQuarterVolumeUtilA(q, d, shiftDatesA(d), off)
                   IN  IF 10 * v > cap[q] THEN cap[q] \div 10 ELSE v]
        totalShiftExVol == SumOver(quarters, 1, vol)
        totalShiftPlannedHours == SumOver(quarters, 1, hrs)
    IN  [totalShiftExVol        |-> totalShiftExVol,
         totalShiftPlannedHours |-> totalShiftPlannedHours,
         totalShiftHoursToSolve |-> IF tph > 0 THEN Ratio(totalShiftExVol, tph)
                                               ELSE Ratio(0, 1),
         totalShiftPlannedVCap  |-> SumOver(quarters, 1, cap),
         averageShiftTPH        |-> IF totalShiftPlannedHours > 0
                                    THEN Ratio(10 * totalShiftExVol, totalShiftPlannedHours)
                                    ELSE Ratio(0, 1)]

\* copy A
shiftAggregatesA(shiftKey, d, inputs, tph, off) ==
    LET quarters == ALL_SHIFT_DEFINITIONS_A[shiftKey].quarters
        vol == [q \in SeqRange(quarters) |->
                   calculateQuarterVolumeUtilA(q, d, shiftDatesA(d), off)]
        hrs == [q \in SeqRange(quarters) |->
                   parseFloatOr(inputsOf(inputs, q.id).plannedHours, 0)]
        cap == [q \in SeqRange(quarters) |->
                   hrs[q] * parseFloatOr(inputsOf(inputs, q.id).plannedRate, 0)]
        totalShiftExVol == SumOver(quarters, 1, vol)
        totalShiftPlannedHours == SumOver(quarters, 1, hrs)
    IN  [totalShiftExVol        |-> totalShiftExVol,
         totalShiftPlannedHours |-> totalShiftPlannedHours,
         totalShiftHoursToSolve |-> IF tph > 0 THEN Ratio(totalShiftExVol, tph)
                                               ELSE Ratio(0, 1),
         totalShiftPlannedVCap  |-> SumOver(quarters, 1, cap),
         averageShiftTPH        |-> IF totalShiftPlannedHours > 0
                                    THEN Ratio(10 * totalShiftExVol, totalShiftPlannedHours)
                                    ELSE Ratio(0, 1)]

\* copy B (its totalShiftDiscrepancy is planned hours minus hours to solve)
shiftAggregatesB(shiftKey, d, inputs, tph) ==
    LET quarters == ALL_SHIFT_DEFINITIONS_B[shiftKey].quarters
        vol == [q \in SeqRange(quarters) |->
                   calculateQuarterVolumeUtilB(q, d, shiftDatesB(d))]
        hrs == [q \in SeqRange(quarters) |->
                   parseFloatOr(inputsOf(inputs, q.id).plannedHours, 0)]
        cap == [q \in SeqRange(quarters) |->
                   hrs[q] * parseFloatOr(inputsOf(inputs, q.id).plannedRate, 0)]
        totalShiftExVol == SumOver(quarters, 1, vol)
        totalShiftPlannedHours == SumOver(quarters, 1, hrs)
    IN  [totalShiftExVol        |-> totalShiftExVol,
         totalShiftPlannedHours |-> totalShiftPlannedHours,
         totalShiftHoursToSolve |-> IF tph > 0 THEN Ratio(totalShiftExVol, tph)
                                               ELSE Ratio(0, 1),
         totalShiftPlannedVCap  |-> SumOver(quarters, 1, cap),
         averageShiftTPH        |-> IF totalShiftPlannedHours > 0
                                    THEN Ratio(10 * totalShiftExVol, totalShiftPlannedHours)
                                    ELSE Ratio(0, 1),
         totalShiftDiscrepancy  |-> IF tph > 0
                                    THEN Ratio(totalShiftPlannedHours * tph
                                                 - 10 * totalShiftExVol, 10 * tph)
                                    ELSE Ratio(totalShiftPlannedHours, 10)]

----------------------------------------------------------------------------
(* Specification SpecPlan: the shift aggregator and the auto-balance solver *)
(* of both copies on the snapshots of PlanSnapshots, the plan stores of     *)
(* PlanStores and the targets of PlanTargets                                *)

\* Applications of auto-balance in a row.
MaxBalances == 2

PlanSnapshots ==
    {Snapshot(1, cd, nd, {}, {}, TRUE, Series(pa, pb), TRUE, <<>>, <<>>) :
        cd \in {NA, Today}, nd \in {NA, Today + 1},
        pa \in {"dense", "noisy", "none"}, pb \in {"dense", "example"}}

\* target throughputs: the cleared field of copy A, the default target, and
\* two so high that quotients fall half way between two tenths and at and
\* below the 0.05 h threshold
PlanTargets == {0, 60, 400, 1200}

InitPlan ==
    /\ data \in PlanSnapshots
    /\ tz \in TZOffsets
    /\ now = [d |-> Today, h |-> 7]
    /\ planInputs \in PlanStores
    /\ calc = [op |-> "none"]
    /\ copy \in {"A", "B"}
    /\ currentView = "pdp"
    /\ vizData = DEFAULT_VIZ_DATA
    /\ isLoading = FALSE
    /\ quarterlyInputs = <<>>
    /\ targetTPH \in PlanTargets
    /\ activeDataSource = "latest"
    /\ dateOfLatestDataLoaded = NA
    /\ dateOfPriorDayView = NA
    /\ pdpMounted = FALSE
    /\ triggerAutoBalance = FALSE
    /\ effects = {}
    /\ fetches = {}
    /\ hist = NoHistory
    /\ probe = NoProbe

planFrame ==
    <<data, tz, now, copy, currentView, vizData, isLoading, quarterlyInputs,
      targetTPH, activeDataSource, dateOfLatestDataLoaded, dateOfPriorDayView,
      pdpMounted, triggerAutoBalance, effects, fetches, hist, probe>>

\* the keys of the shifts a copy's plan page can show a card for
planShiftKeys ==
    IF copy = "A" THEN SeqRange(ORDERED_SHIFT_KEYS_A) ELSE SeqRange(ORDERED_SHIFT_KEYS_B)

\* the shifts copy B displays for the snapshot and the clock
planShiftsToDisplay == shiftsToDisplayB(data, "latest", NA, now)

\* the ids of the quarters auto-balance solves
solvedQuarterIds ==
    IF copy = "A" THEN {q.id : q \in QuartersA}
    ELSE displayedQuarterIdsB(planShiftsToDisplay)

\* ShiftQuarterPlannerCard.shiftAggregates of one shift
Aggregate(shiftKey) ==
    /\ shiftKey \in planShiftKeys
    /\ calc' = [op |-> "aggregate", shiftKey |-> shiftKey,
                agg |-> IF copy = "A"
                        THEN shiftAggregatesA(shiftKey, data, planInputs, targetTPH, tz)
                        ELSE shiftAggregatesB(shiftKey, data, planInputs, targetTPH)]
    /\ UNCHANGED planInputs
    /\ UNCHANGED planFrame

\* The body of the auto-balance effect, with its trigger set
AutoBalance ==
    /\ hasExtendedPredictions(data)
    /\ copy = "B" => planShiftsToDisplay # <<>>
    /\ targetTPH > 0
    /\ calc.op = "autoBalance" => calc.times < MaxBalances
    /\ planInputs' = IF copy = "A"
                     THEN autoBalanceA(data, planInputs, targetTPH, tz)
                     ELSE mergeInputs(planInputs,
                              newQuarterlyDataB(data, planInputs, targetTPH,
                                                planShiftsToDisplay))
    /\ calc' = [op |-> "autoBalance", before |-> planInputs,
                times |-> IF calc.op = "autoBalance" THEN calc.times + 1 ELSE 1]
    /\ UNCHANGED planFrame

NextPlan ==
    \/ \E shiftKey \in SeqRange(ORDERED_SHIFT_KEYS_B) : Aggregate(shiftKey)
    \/ AutoBalance

SpecPlan == InitPlan /\ [][NextPlan]_vars

----------------------------------------------------------------------------
(* Properties of SpecPlan *)

\* the resolver's volume of a quarter of the running copy
resolverVolume(quarter) ==
    IF copy = "A" THEN calculateQuarterVolumeUtilA(quarter, data, shiftDatesA(data), tz)
    ELSE calculateQuarterVolumeUtilB(quarter, data, shiftDatesB(data))

catalogQuarters(shiftKey) ==
    IF copy = "A" THEN ALL_SHIFT_DEFINITIONS_A[shiftKey].quarters
    ELSE ALL_SHIFT_DEFINITIONS_B[shiftKey].quarters

\* C13: whatever the plan store and the target throughput, the aggregate's
\* totalShiftExVol is the sum of the resolver's volumes of the four quarters
\* of the shift; the plan inputs and the target reach the other fields only.
C13_TotalIsResolverSum ==
    calc.op = "aggregate" =>
        LET quarters == catalogQuarters(calc.shiftKey)
        IN  calc.agg.totalShiftExVol =
                resolverVolume(quarters[1]) + resolverVolume(quarters[2])
              + resolverVolume(quarters[3]) + resolverVolume(quarters[4])

\* an aggregate of a shift with volume, on a store with planned capacity
\* below that volume
C13_Witness ==
    /\ calc.op = "aggregate"
    /\ calc.agg.totalShiftExVol > 0
    /\ calc.agg.totalShiftPlannedVCap > 0
    /\ calc.agg.totalShiftPlannedVCap < 10 * calc.agg.totalShiftExVol
    /\ targetTPH = 60

solvedQuarter(id) == IF copy = "A" THEN quarterA(id) ELSE quarterB(id)

BalancedAgain == calc.op = "autoBalance" /\ calc.times >= 2

\* C15: auto-balance applied again, with the snapshot and the target
\* unchanged, leaves the whole plan-input store (so every quarter's
\* plannedHours) as the application before left it.
C15_AutoBalanceIdempotent ==
    [][ (calc.op = "autoBalance" /\ calc'.op = "autoBalance")
        => planInputs' = planInputs ]_vars

\* the second application in a row has run, on a store that held entries
\* before the first, and some quarter has solved hours
C15_Witness ==
    /\ BalancedAgain
    /\ calc.before = planInputs
    /\ \E id \in solvedQuarterIds : planInputs[id].plannedHours.v > 0
    /\ \E id \in solvedQuarterIds : planInputs[id].plannedRate # Num(DEFAULT_PLANNED_RATE)

\* C16: after auto-balance every solved quarter has the plannedRate the store
\* held for it before, whatever that value was, and the default rate only
\* where the store held no plannedRate.
C16_RatePreserved ==
    calc.op = "autoBalance" =>
        \A id \in solvedQuarterIds :
            planInputs[id].plannedRate =
                IF inputsOf(calc.before, id).plannedRate = UNDEF
                THEN Num(DEFAULT_PLANNED_RATE)
                ELSE inputsOf(calc.before, id).plannedRate

\* C17: after auto-balance the plannedHours of every solved quarter is a
\* whole number of tenths of an hour, 0 or at least 0.1, no further than 0.05
\* from expectedVolume / targetTPH (so it is that quotient rounded to one
\* decimal), and 0 when the quotient is below 0.05.
C17_HoursRounded ==
    calc.op = "autoBalance" =>
        \A id \in solvedQuarterIds :
            LET h   == planInputs[id].plannedHours
                vol == resolverVolume(solvedQuarter(id))
                off == 10 * vol - h.v * targetTPH
            IN  /\ h.k = "num"
                /\ h.v \in Nat
                /\ 2 * off <= targetTPH /\ 2 * (0 - off) <= targetTPH
                /\ 20 * vol < targetTPH => h.v = 0

\* auto-balance has solved a quarter whose quotient is exactly 0.05 (hours
\* 0) and one whose quotient, 0.15, is half way between two tenths (hours 0.1)
C17_Witness ==
    /\ calc.op = "autoBalance"
    /\ \E id \in solvedQuarterIds :
          /\ 20 * resolverVolume(solvedQuarter(id)) = targetTPH
          /\ planInputs[id].plannedHours = Num(0)
    /\ \E id \in solvedQuarterIds :
          /\ 20 * resolverVolume(solvedQuarter(id)) = 3 * targetTPH
          /\ planInputs[id].plannedHours = Num(1)

----------------------------------------------------------------------------
(* Agreement of the call sites on a quarter's expected volume (checked      *)
(* under SpecTraj)                                                          *)

\* totalShiftExVol of the shift aggregator for a shift of the projecting
\* copy, in tenths of a unit as the steps of the trajectory
aggregatorVolume(shiftKey) ==
    IF calc.op = "trajA"
    THEN 10 * shiftAggregatesA(shiftKey, data, planInputs, DEFAULT_TARGET_TPH, tz).totalShiftExVol
    ELSE 10 * shiftAggregatesB(shiftKey, data, planInputs, DEFAULT_TARGET_TPH).totalShiftExVol

\* the hours auto-balance writes for every quarter it solves are the hours
\* that solve the resolver's volume of that quarter at the target
balancedFromResolver ==
    IF calc.op = "trajA"
    THEN \A q \in QuartersA :
            autoBalanceA(data, planInputs, DEFAULT_TARGET_TPH, tz)[q.id].plannedHours
              = Num(sensibleHoursToSolve(
                        calculateQuarterVolumeUtilA(q, data, shiftDatesA(data), tz),
                        DEFAULT_TARGET_TPH))
    ELSE LET shifts == shiftsToDisplayB(data, "latest", NA, now)
         IN  \A id \in displayedQuarterIdsB(shifts) :
                newQuarterlyDataB(data, planInputs, DEFAULT_TARGET_TPH, shifts)[id].plannedHours
                  = Num(sensibleHoursToSolve(
                            calculateQuarterVolumeUtilB(quarterB(id), data, shiftDatesB(data)),
                            DEFAULT_TARGET_TPH))

\* C14: every call site gets the same expected volume for the same
\* snapshot: the expected volume of every step of the backlog trajectory is
\* the shift aggregator's totalShiftExVol of that shift, and the volume
\* auto-balance divides by the target is the resolver's volume of the quarter.
C14_CallSitesAgree ==
    Projected =>
        /\ \A i \in 1..Len(calc.steps) :
              calc.steps[i].expectedVol = aggregatorVolume(calc.steps[i].shiftKey)
        /\ balancedFromResolver

----------------------------------------------------------------------------
(* Specification SpecFold: the loop of the backlog trajectory on given      *)
(* shift totals.  The loop body of BacklogTrajectoryCard.trajectoryData and *)
(* of DashboardPage.handoffTrajectories is the same fold over the totals of *)
(* the iterated shifts; here the totals are the inputs.                     *)

\* starting backlogs
FoldBacklogs == {0, 20, 200}

\* totals of a shift: expected volume and planned capacity
FoldTotals ==
    {[totalExVol |-> v, totalPlannedVCap |-> c] : v \in {0, 50, 100}, c \in {0, 60, 80}}

RECURSIVE projectBacklog(_, _, _, _)
\* the steps pushed for the shifts i.. of a sequence of shift totals; the
\* i-th iterated shift carries the i-th key of the catalog
projectBacklog(shifts, i, accumulatingBacklog, first) ==
    IF i > Len(shifts) THEN <<>>
    ELSE LET step == trajectoryStep(ORDERED_SHIFT_KEYS_A[i], accumulatingBacklog, shifts[i])
         IN  <<step>> \o projectBacklog(shifts, i + 1, nextBacklog(step, first), first)

InitFold ==
    /\ data = DEFAULT_VIZ_DATA
    /\ tz = 0
    /\ now = [d |-> Today, h |-> 7]
    /\ planInputs = <<>>
    /\ \E b \in FoldBacklogs, s1 \in FoldTotals, s2 \in FoldTotals :
          calc = [op |-> "none", start |-> b, shifts |-> <<s1, s2>>]
    /\ AppIdle

\* the trajectory of the shifts in their order, from the starting backlog
ProjectShifts ==
    /\ calc.op = "none"
    /\ calc' = [op |-> "fold", start |-> calc.start, shifts |-> calc.shifts,
                steps |-> projectBacklog(calc.shifts, 1, calc.start, calc.start)]
    /\ UNCHANGED <<data, tz, now, planInputs>>
    /\ UNCHANGED appVars

NextFold == ProjectShifts

SpecFold == InitFold /\ [][NextFold]_vars

----------------------------------------------------------------------------
(* Properties of the fold (checked under SpecFold) *)

\* the same two shifts in the reverse order
reversedShifts == <<calc.shifts[2], calc.shifts[1]>>

\* the shifts (vol=100, cap=80) then (vol=50, cap=60), starting backlog 20
ExampleShifts ==
    /\ calc.start = 20
    /\ calc.shifts = << [totalExVol |-> 100, totalPlannedVCap |-> 80],
                        [totalExVol |-> 50,  totalPlannedVCap |-> 60] >>

\* C18: the projection is order-sensitive: for the shifts (vol=100, cap=80)
\* then (vol=50, cap=60) with starting backlog 20 the end backlogs are 40
\* then 30, and projecting the same two shifts in the reverse order gives a
\* different sequence of steps (as it does for any two shifts that differ).
C18_OrderSensitive ==
    calc.op = "fold" =>
        /\ ExampleShifts =>
              /\ calc.steps[1].endBacklog = 40
              /\ calc.steps[2].startBacklog = 40
              /\ calc.steps[2].endBacklog = 30
        /\ calc.shifts[1] # calc.shifts[2] =>
              projectBacklog(reversedShifts, 1, calc.start, calc.start) # calc.steps

\* C18 witness: the example has been projected, and the reverse order hands
\* 10 instead of 40 from its first step to its second.
C18_Witness ==
    /\ calc.op = "fold"
    /\ ExampleShifts
    /\ Len(calc.steps) = 2
    /\ projectBacklog(reversedShifts, 1, calc.start, calc.start)[1].endBacklog = 10
    /\ projectBacklog(reversedShifts, 1, calc.start, calc.start)[2].endBacklog = 30

----------------------------------------------------------------------------
(* Missing context and missing points (checked under SpecVol) *)

\* the hour the resolver looks up for the end of the resolved quarter
EndLookupHour == IF calc.quarter.endHour = 0 THEN 23 ELSE calc.quarter.endHour - 1

\* the cumulative value at the start lookup of the resolved quarter: 0 for a
\* quarter that starts at midnight, 0 when the series has no point there
StartCumulative ==
    IF calc.quarter.startHour = 0 THEN 0
    ELSE Cumulative(ResolvedDate, calc.quarter.startHour - 1)

\* C19: missing context degrades to zero volume: when the calendar date of
\* the quarter is unresolved ("N/A" or absent), or the snapshot has no
\* extended-predictions section or an empty prediction list, the resolver
\* returns 0 for every quarter of every shift.
C19_MissingContextIsZero ==
    ( /\ Resolved
      /\ \/ ResolvedDate = NA
         \/ ~data.extended_predictions.present
         \/ data.extended_predictions.predictions = {} )
    => calc.vol = 0

\* C19 witness: a quarter whose date is unresolved has been resolved on a
\* snapshot whose series carries points with positive values, and the result
\* is 0.
C19_Witness ==
    /\ Resolved
    /\ ResolvedDate = NA
    /\ \E p \in predictionsSource(data) : p.Predicted_Workable > 0
    /\ calc.vol = 0

\* C20: a missing point counts as the cumulative value 0: when the date of
\* the quarter resolves and the series has no point at the quarter's start
\* lookup hour, or none at its end lookup hour, the resolver returns
\* max(0, end - start) with 0 for the missing point and the series' value
\* for the other.
C20_MissingPointIsZero ==
    ( /\ Resolved
      /\ ResolvedDate # NA
      /\ \/ ~HasPoint(ResolvedDate, EndLookupHour)
         \/ /\ calc.quarter.startHour > 0
            /\ ~HasPoint(ResolvedDate, calc.quarter.startHour - 1) )
    => calc.vol = Max(0, Cumulative(ResolvedDate, EndLookupHour) - StartCumulative)

----------------------------------------------------------------------------
(* Planned capacity of the aggregate (checked under SpecPlan) *)

\* the hours of a quarter as the plan store gives them: 0 when the entry or
\* the field is absent or not a number
statedHours(id) ==
    LET h == inputsOf(planInputs, id).plannedHours
    IN  IF h.k = "num" THEN h.v ELSE 0

\* the rate of a quarter as the plan store gives it: the default rate when
\* the entry or the field is absent, 0 for a field that is not a number
statedRate(id) ==
    LET r == inputsOf(planInputs, id).plannedRate
    IN  IF r = UNDEF THEN DEFAULT_PLANNED_RATE
        ELSE IF r.k = "num" THEN r.v ELSE 0

\* C21: the aggregate's totalShiftPlannedVCap is the sum over the quarters of
\* the shift of plannedHours x plannedRate, with the default rate for a
\* quarter whose plannedRate is absent and 0 hours for a quarter whose
\* plannedHours is absent or not a number.
C21_PlannedCapacityIsSum ==
    calc.op = "aggregate" =>
        LET quarters == catalogQuarters(calc.shiftKey)
            cap == [q \in SeqRange(quarters) |-> statedHours(q.id) * statedRate(q.id)]
        IN  calc.agg.totalShiftPlannedVCap = SumOver(quarters, 1, cap)

----------------------------------------------------------------------------
(* Specification SpecEdit: sequences of user edits of the plan inputs and   *)
(* of the target throughput, with the aggregates, the auto-balance and the  *)
(* backlog trajectory computed on the edited store                          *)

EditSnapshots ==
    {Snapshot(1, Today, Today + 1, DayPoints(Today, "dense"), DayPoints(Today + 1, "dense"),
              TRUE, Series("dense", "dense"), TRUE, <<30, 120>>, <<40>>),
     Snapshot(1, Today, Today + 1, {}, {}, TRUE, {}, TRUE, <<>>, <<>>)}

\* the store before the edits: empty, or every quarter planned for 3.0 hours
\* with no rate entered
EditStores ==
    { <<>>,
      [id \in QuarterIds |-> [plannedHours |-> Num(30), plannedRate |-> UNDEF]] }

\* the texts typed into a field: a number, zero, nothing, a text that is no
\* number
EditTexts == {Num(7), Num(0), EMPTY, TEXT}

InitEdit ==
    /\ data \in EditSnapshots
    /\ tz = 0
    /\ now = [d |-> Today, h |-> 7]
    /\ planInputs \in EditStores
    /\ calc = [op |-> "none"]
    /\ copy \in {"A", "B"}
    /\ currentView = "pdp"
    /\ vizData = DEFAULT_VIZ_DATA
    /\ isLoading = FALSE
    /\ quarterlyInputs = <<>>
    /\ targetTPH = DEFAULT_TARGET_TPH
    /\ activeDataSource = "latest"
    /\ dateOfLatestDataLoaded = NA
    /\ dateOfPriorDayView = NA
    /\ pdpMounted = FALSE
    /\ triggerAutoBalance = FALSE
    /\ effects = {}
    /\ fetches = {}
    /\ hist = NoHistory
    /\ probe = NoProbe

editFrame ==
    <<data, tz, now, copy, currentView, vizData, isLoading, quarterlyInputs,
      activeDataSource, dateOfLatestDataLoaded, dateOfPriorDayView,
      pdpMounted, triggerAutoBalance, effects, fetches, hist, probe>>

\* handleInputChange on a field of a quarter, no auto-balance pending
EditPlan(quarterId, field, value) ==
    /\ planInputs' = handleInputChange(planInputs, quarterId, field, value)
    /\ calc' = [op |-> "edit", quarterId |-> quarterId, field |-> field, value |-> value]
    /\ UNCHANGED targetTPH
    /\ UNCHANGED editFrame

\* the target-throughput field: parseFloat(e.target.value) || 0 in copy A,
\* || DEFAULT_TARGET_TPH in copy B
EditTarget(value) ==
    /\ targetTPH' = parseFloatOr(value, IF copy = "A" THEN 0 ELSE DEFAULT_TARGET_TPH)
    /\ calc' = [op |-> "target", value |-> value]
    /\ UNCHANGED planInputs
    /\ UNCHANGED editFrame

\* ShiftQuarterPlannerCard.shiftAggregates of every shift of the catalog
AggregateAll ==
    /\ calc' = [op |-> "aggregates",
                aggs |-> IF copy = "A"
                         THEN [k \in SeqRange(ORDERED_SHIFT_KEYS_A) |->
                                  shiftAggregatesA(k, data, planInputs, targetTPH, tz)]
                         ELSE [k \in SeqRange(ORDERED_SHIFT_KEYS_B) |->
                                  shiftAggregatesB(k, data, planInputs, targetTPH)]]
    /\ UNCHANGED <<planInputs, targetTPH>>
    /\ UNCHANGED editFrame

\* the backlog trajectory of the running copy
ProjectPlan ==
    /\ calc' = [op |-> "trajectory",
                steps |-> IF copy = "A"
                          THEN trajectoryDataA(data, planInputs, tz).trajectory
                          ELSE handoffTrajectoriesB(data, planInputs, now, tz)]
    /\ UNCHANGED <<planInputs, targetTPH>>
    /\ UNCHANGED editFrame

\* "Apply Optimal Hrs" and the auto-balance effect that follows it
ApplyPlan ==
    /\ hasExtendedPredictions(data)
    /\ copy = "B" => planShiftsToDisplay # <<>>
    /\ targetTPH > 0
    /\ planInputs' = IF copy = "A"
                     THEN autoBalanceA(data, planInputs, targetTPH, tz)
                     ELSE mergeInputs(planInputs,
                              newQuarterlyDataB(data, planInputs, targetTPH,
                                                planShiftsToDisplay))
    /\ calc' = [op |-> "apply"]
    /\ UNCHANGED targetTPH
    /\ UNCHANGED editFrame

NextEdit ==
    \/ \E quarterId \in EditedQuarters, field \in {"plannedHours", "plannedRate"},
          value \in EditTexts : EditPlan(quarterId, field, value)
    \/ \E value \in EditTexts : EditTarget(value)
    \/ AggregateAll
    \/ ProjectPlan
    \/ ApplyPlan

SpecEdit == InitEdit /\ [][NextEdit]_vars

----------------------------------------------------------------------------
(* Properties of SpecEdit *)

\* a stored field is a number or the empty string (or the entry has no such
\* field)
sanitised(x) == x.k \in {"num", "empty", "undef"} /\ x.v \in Int

\* a quotient is a finite number
finiteRatio(r) == r.num \in Int /\ r.den \in Int /\ r.den # 0

\* C22: malformed input does not propagate as NaN: after any edits every
\* field held in the plan-input store is a number or the empty string, the
\* target throughput is a number, every field of every shift's aggregate is
\* a finite number (averageShiftTPH with no planned hours and
\* totalShiftHoursToSolve with target 0 included), and so is every
\* endBacklog of the trajectory.
C22_NoNaN ==
    /\ \A id \in DOMAIN planInputs :
          /\ sanitised(planInputs[id].plannedHours)
          /\ sanitised(planInputs[id].plannedRate)
    /\ targetTPH \in Int
    /\ calc.op = "aggregates" =>
          \A k \in DOMAIN calc.aggs :
              LET agg == calc.aggs[k]
              IN  /\ agg.totalShiftExVol \in Int
                  /\ agg.totalShiftPlannedHours \in Int
                  /\ agg.totalShiftPlannedVCap \in Int
                  /\ finiteRatio(agg.totalShiftHoursToSolve)
                  /\ finiteRatio(agg.averageShiftTPH)
                  /\ copy = "B" => finiteRatio(agg.totalShiftDiscrepancy)
    /\ calc.op = "trajectory" =>
          \A i \in 1..Len(calc.steps) : calc.steps[i].endBacklog \in Int

\* C22 witness: aggregates computed in copy A after a text that is no number
\* was typed into the hours of a quarter (the field holds the empty string)
\* and the target field was cleared (target 0), with a shift that has
\* expected volume and no planned hours.
C22_Witness ==
    /\ copy = "A"
    /\ calc.op = "aggregates"
    /\ targetTPH = 0
    /\ \E id \in DOMAIN planInputs : planInputs[id].plannedHours = EMPTY
    /\ \E k \in DOMAIN calc.aggs :
          /\ calc.aggs[k].totalShiftExVol > 0
          /\ calc.aggs[k].totalShiftPlannedHours = 0

\* the field of a plan-input entry that an edit of `field` does not name
otherField(entry, field) ==
    IF field = "plannedHours" THEN entry.plannedRate ELSE entry.plannedHours

editedField(entry, field) ==
    IF field = "plannedHours" THEN entry.plannedHours ELSE entry.plannedRate

\* C30: an edit of one field of one quarter changes that field of that
\* quarter's entry only: the entries of the other quarters and the other
\* field of the quarter are as before, and the field holds the number typed,
\* or the empty string when the text typed is not a number.
C30_EditChangesOneField ==
    [][ \A quarterId \in EditedQuarters, field \in {"plannedHours", "plannedRate"},
           value \in EditTexts :
          EditPlan(quarterId, field, value)
          => /\ DOMAIN planInputs' = DOMAIN planInputs \cup {quarterId}
             /\ \A id \in DOMAIN planInputs \ {quarterId} :
                   planInputs'[id] = planInputs[id]
             /\ otherField(planInputs'[quarterId], field)
                  = otherField(inputsOf(planInputs, quarterId), field)
             /\ editedField(planInputs'[quarterId], field)
                  = IF value.k = "num" THEN value ELSE EMPTY ]_vars

\* C30 witness: after an auto-balance and a number typed into the hours of a
\* quarter, a text that is no number has been typed into its rate: the entry
\* holds the number and the empty string, next to the entries of the other
\* quarters.
C30_Witness ==
    /\ calc.op = "edit"
    /\ calc.field = "plannedRate"
    /\ calc.value = TEXT
    /\ calc.quarterId \in DOMAIN planInputs
    /\ planInputs[calc.quarterId] = [plannedHours |-> Num(7), plannedRate |-> EMPTY]
    /\ \E id \in DOMAIN planInputs \ {calc.quarterId} :
          /\ planInputs[id].plannedRate = Num(DEFAULT_PLANNED_RATE)
          /\ planInputs[id].plannedHours.k = "num"
          /\ planInputs[id].plannedHours.v > 0

----------------------------------------------------------------------------
(* Order of the probes (checked under SpecFetch) *)

\* C23: the candidates are probed in descending hour order from the hour of
\* the clock reading (the candidate of attempt n lies n hours before it,
\* within the 48 attempts), and the call returns at the first candidate that
\* is available: no candidate it passed over carried a snapshot with the
\* expected structures, so the snapshot returned is never older than an
\* available one.
C23_LatestAvailableFirst ==
    probe.pc # "idle" =>
        /\ probe.attempts <= maxAttempts
        /\ Abs(probe.baseTime) = Abs(now) - probe.attempts
        /\ \A doc \in probe.skipped : ~hasExpectedStructures(doc)
        /\ (probe.pc = "returned" /\ probe.vizDataResult # DEFAULT_VIZ_DATA)
              => probe.attempts < maxAttempts

\* C23 witness: a call of copy B passed over candidates, one of them a
\* document without the expected structures, and returned the snapshot of a
\* later probe.
C23_Witness ==
    /\ copy = "B"
    /\ probe.pc = "returned"
    /\ probe.attempts >= 2
    /\ PartialDocument \in probe.skipped
    /\ hasExpectedStructures(probe.vizDataResult)

----------------------------------------------------------------------------
(* The shift catalog as a tiling of time (checked under SpecVol) *)

\* the quarters of all shifts in declared order
declaredQuartersA ==
    ALL_SHIFT_DEFINITIONS_A[ORDERED_SHIFT_KEYS_A[1]].quarters
      \o ALL_SHIFT_DEFINITIONS_A[ORDERED_SHIFT_KEYS_A[2]].quarters
      \o ALL_SHIFT_DEFINITIONS_A[ORDERED_SHIFT_KEYS_A[3]].quarters

declaredQuartersB ==
    ALL_SHIFT_DEFINITIONS_B[ORDERED_SHIFT_KEYS_B[1]].quarters
      \o ALL_SHIFT_DEFINITIONS_B[ORDERED_SHIFT_KEYS_B[2]].quarters
      \o ALL_SHIFT_DEFINITIONS_B[ORDERED_SHIFT_KEYS_B[3]].quarters
      \o ALL_SHIFT_DEFINITIONS_B[ORDERED_SHIFT_KEYS_B[4]].quarters
      \o ALL_SHIFT_DEFINITIONS_B[ORDERED_SHIFT_KEYS_B[5]].quarters

\* the date a quarter resolves to on the snapshot, per copy
quarterDateA(q) == shiftDatesA(data)[q.dateKey]
quarterDateB(q) == qActualDateStrB(q, shiftDatesB(data))

\* start and end instant of a quarter on a date, in hours; a quarter that
\* does not end after its start hour ends on the following day
startInstant(q, date) == date * 24 + q.startHour
endInstant(q, date) ==
    IF q.endHour <= q.startHour THEN (date + 1) * 24 + q.endHour
    ELSE date * 24 + q.endHour

threeHourWindow(q) ==
    /\ q.startHour # q.endHour
    /\ (q.endHour - q.startHour) % 24 = 3

\* C24: the catalog tiles time: every quarter is a 3-hour window
\* (endHour - startHour = 3 modulo 24, never startHour = endHour), and in the
\* declared order of all quarters of all shifts every quarter starts at the
\* instant the quarter before it ends (a quarter ending at hour 0 ends at
\* 00:00 of the day after its date), wherever the dates of both resolve.
C24_CatalogTilesTime ==
    /\ \A i \in 1..Len(declaredQuartersA) : threeHourWindow(declaredQuartersA[i])
    /\ \A i \in 1..Len(declaredQuartersB) : threeHourWindow(declaredQuartersB[i])
    /\ \A i \in 2..Len(declaredQuartersA) :
          LET p == declaredQuartersA[i - 1]
              q == declaredQuartersA[i]
          IN  (quarterDateA(p) # NA /\ quarterDateA(q) # NA)
              => startInstant(q, quarterDateA(q)) = endInstant(p, quarterDateA(p))
    /\ \A i \in 2..Len(declaredQuartersB) :
          LET p == declaredQuartersB[i - 1]
              q == declaredQuartersB[i]
          IN  (quarterDateB(p) # NA /\ quarterDateB(q) # NA)
              => startInstant(q, quarterDateB(q)) = endInstant(p, quarterDateB(p))

\* C24 witness: on a snapshot with both anchor dates the last quarter of the
\* catalog that ends at midnight has been resolved; the quarter after it is
\* dated the following day.
C24_Witness ==
    /\ calc.op = "quarterB"
    /\ calc.quarter.id = "dannq2"
    /\ calc.quarter.endHour = 0
    /\ data.current_day.date # NA
    /\ data.next_day.date # NA
    /\ quarterDateB(quarterB("dannq3")) = ResolvedDate + 1

----------------------------------------------------------------------------
(* Who writes the plan-input store (checked under SpecApp) *)

\* a fetch completes, the timer ticks, the view or the data source is
\* switched, or the target throughput is edited
sessionEvent ==
    \/ \E view \in {"dashboard", "pdp"} : SetCurrentView(view)
    \/ TimerTick
    \/ SwitchToLatestView
    \/ SwitchToPriorDayView
    \/ \E f \in fetches, result \in LatestResults : LatestDone(f, result)
    \/ \E f \in fetches : \E priorData \in PriorResults(f.target) : PriorDone(f, priorData)
    \/ \E typed \in TargetTyped : SetTargetTPH(typed)

\* every entry of the store `before` is in `after` with the same fields
keepsEntries(before, after) ==
    \A id \in DOMAIN before : id \in DOMAIN after /\ after[id] = before[id]

\* C25: the plan-input store is written by user edits and triggered
\* auto-balances only (and by the initialisation of quarters without an
\* entry): a fetch completion, a timer tick, a view switch or a target edit
\* that occurs while no auto-balance trigger is pending leaves every existing
\* entry as it was, the effects of the render it commits included.
C25_StoreWrittenByEditsOnly ==
    [][ (~triggerAutoBalance /\ sessionEvent)
        => /\ keepsEntries(quarterlyInputs, quarterlyInputs')
           /\ keepsEntries(quarterlyInputs,
                  storeAfterEffects(effects', triggerAutoBalance', vizData',
                                    quarterlyInputs', shiftsToDisplay', targetTPH',
                                    copy', tz')) ]_vars

----------------------------------------------------------------------------
(* Planned capacity of a shift at its two call sites (checked under         *)
(* SpecTraj)                                                                *)

\* totalShiftPlannedVCap of the shift aggregator for a shift of the
\* projecting copy
aggregatorCapacity(shiftKey) ==
    IF calc.op = "trajA"
    THEN shiftAggregatesA(shiftKey, data, planInputs, DEFAULT_TARGET_TPH, tz).totalShiftPlannedVCap
    ELSE shiftAggregatesB(shiftKey, data, planInputs, DEFAULT_TARGET_TPH).totalShiftPlannedVCap

\* C26: for the same shift and the same plan-input store, the planned
\* capacity every step of the backlog trajectory subtracts is the
\* totalShiftPlannedVCap the shift aggregator reports for that shift, whatever
\* the store holds (missing, empty or zero plannedRate included).
C26_CapacityAgrees ==
    Projected =>
        \A i \in 1..Len(calc.steps) :
            calc.steps[i].plannedVCap = aggregatorCapacity(calc.steps[i].shiftKey)

----------------------------------------------------------------------------
(* Order of the fetch completions (checked under SpecApp) *)

\* C27: the active snapshot is never replaced by the outcome of a fetch that
\* was started before the fetch whose outcome is currently active: the
\* completion of such a fetch leaves the active snapshot as it is.
C27_ResultsInStartOrder ==
    [][ \A f \in fetches :
          (f.id \in hist.outrun /\
             (\/ \E result \in LatestResults : LatestDone(f, result)
              \/ \E priorData \in PriorResults(f.target) : PriorDone(f, priorData)))
          => vizData' = vizData ]_vars

----------------------------------------------------------------------------
(* A trigger that cannot be applied yet (checked under SpecAppLive) *)

\* The step that runs the scheduled effects: RunEffects is the only action
\* of NextApp that is enabled while effects are scheduled, and it empties them.
EffectsRun == effects # {} /\ effects' = {}

\* React runs the effects of every committed render
SpecAppLive == SpecApp /\ WF_effects(EffectsRun)

\* the mounted plan page holds a snapshot with a non-empty prediction series
\* and a positive target
canApply == pdpMounted /\ hasExtendedPredictions(vizData) /\ targetTPH > 0

\* C28: a trigger that is set while it cannot be applied (no predictions
\* loaded, or target throughput <= 0) stays set, and the effects leave the
\* plan-input store unchanged; once a snapshot with a non-empty prediction
\* series is active and the target is > 0, auto-balance is eventually applied,
\* and the step that applies it clears the trigger.
C28_DeferredTrigger ==
    /\ [][ (triggerAutoBalance /\ ~canApply /\ pdpMounted') => triggerAutoBalance' ]_vars
    /\ [][ (EffectsRun /\ triggerAutoBalance /\ ~canApply)
             => quarterlyInputs' = quarterlyInputs ]_vars
    /\ [][ (EffectsRun /\ hist'.applied) => (triggerAutoBalance /\ ~triggerAutoBalance') ]_vars
    /\ (triggerAutoBalance /\ canApply) ~> (hist.applied /\ ~triggerAutoBalance)

C28_Witness ==
    /\ pdpMounted /\ triggerAutoBalance /\ effects = {}
    /\ ~canApply
    /\ quarterlyInputs # <<>>

----------------------------------------------------------------------------
(* The data source and the prior-day date of copy B (checked under SpecApp) *)

\* C29: in the prior-day-capable App activeDataSource is 'priorDay' exactly
\* when dateOfPriorDayView is non-null, and then dateOfPriorDayView is the
\* current_day date of the active snapshot.
C29_SourceMatchesPriorDate ==
    copy = "B" =>
        /\ (activeDataSource = "priorDay") <=> (dateOfPriorDayView # NA)
        /\ activeDataSource = "priorDay" => dateOfPriorDayView = vizData.current_day.date

====
